---- MODULE Spec2Model ----
(***************************************************************************)
(* Rating engine of leet-tracker: the Glicko-2 update (eloRating.ts), the  *)
(* rating sync (ratingSync), the ratings and solve-session storage layers  *)
(* and the calibration flow, as state machines over one user's records.    *)
(*                                                                         *)
(* Numbers.  JavaScript numbers are IEEE doubles; TLC has 32-bit integers. *)
(* A real x is held as the integer round(x * Scale), Scale = 10^4 (a       *)
(* "fixed-point" value, written Fx below).  Ratings, Glicko-scale values,  *)
(* volatilities and outcome scores are Fx; rating deviations (rd), which   *)
(* the program only ever stores rounded, are whole rating points; times    *)
(* are whole days (Date.now() in ms overflows 32 bits), 0 = "unset".       *)
(***************************************************************************)
EXTENDS Integers, Sequences, FiniteSets, TLC

VARIABLES
    now,        \* Date.now(), in days since the epoch (>= 1)
    call,       \* the last call of a pure function: its name, inputs and result
    rec,        \* a UserRating under repeated updateRating calls
    session,    \* the record under "<username>|session" of active-solve-session
    store,      \* the record under "<username>|ratings" of user-ratings
    frames,     \* the running calls of ratingSync, one frame per caller
    cal,        \* the CalibrationState the calibration flow holds
    finalized   \* the UserRatings finalizeCalibration returned

vars == <<now, call, rec, session, store, frames, cal, finalized>>

(***************************************************************************)
(* Fixed-point arithmetic (the double arithmetic of the source).           *)
(***************************************************************************)
Scale == 100 * 100

Abs(x) == IF x < 0 THEN -x ELSE x

Min(a, b) == IF a < b THEN a ELSE b

Max(a, b) == IF a > b THEN a ELSE b

SignOf(a, b) == IF (a < 0) = (b < 0) THEN 1 ELSE -1

\* a * b of two non-negative Fx values, rounded to nearest; split so that no
\* partial product leaves 32 bits.
MulP(a, b) ==
    LET ah == a \div Scale
        al == a % Scale
        bh == b \div Scale
        bl == b % Scale
    IN  ah * bh * Scale + ah * bl + al * bh + (al * bl + Scale \div 2) \div Scale

FxMul(a, b) == SignOf(a, b) * MulP(Abs(a), Abs(b))

\* Long division: n more decimal digits of r / b (r < b), then the rounding digit.
RECURSIVE DivDigits(_, _, _, _)
DivDigits(acc, r, b, n) ==
    IF n = 0
    THEN acc + (IF 2 * r >= b THEN 1 ELSE 0)
    ELSE DivDigits(acc * 10 + (r * 10) \div b, (r * 10) % b, b, n - 1)

DivP(a, b) == DivDigits(a \div b, a % b, b, 4)

\* a / b of two Fx values (b # 0), rounded to nearest.
FxDiv(a, b) == SignOf(a, b) * DivP(Abs(a), Abs(b))

\* x / 2 rounded toward zero.
Half(x) == IF x >= 0 THEN x \div 2 ELSE -((-x) \div 2)

\* Math.round of an Fx value, as a whole number (halves round up).
MathRound(x) == (x + Scale \div 2) \div Scale

\* A whole number as an Fx value.
Fx(n) == n * Scale

\* Integer square root (Newton).
RECURSIVE ISqrtIter(_, _)
ISqrtIter(n, x) ==
    LET y == (x + n \div x) \div 2
    IN  IF y >= x THEN x ELSE ISqrtIter(n, y)

ISqrt(n) == IF n < 2 THEN n ELSE ISqrtIter(n, n)

\* Math.sqrt of an Fx value x >= 0: integer root, then three Newton steps.
SqrtStep(x, y) == IF y = 0 THEN 0 ELSE (y + FxDiv(x, y)) \div 2

MathSqrt(x) ==
    LET y0 == Max(1, ISqrt(x) * ISqrt(Scale))
    IN  IF x = 0 THEN 0 ELSE SqrtStep(x, SqrtStep(x, SqrtStep(x, y0)))

\* e^0 .. e^12 as Fx values.
ExpTable ==
    <<10000, 27183, 73891, 200855, 545982, 1484132, 4034288, 10966332,
      29809580, 81030839, 220264658, 598741417, 1627547914>>

\* Taylor series of e^r for 0 <= r < 1, summed until the terms vanish.
RECURSIVE ExpSeries(_, _, _, _)
ExpSeries(r, term, n, acc) ==
    LET t == (FxMul(term, r) + n \div 2) \div n
    IN  IF t = 0 THEN acc ELSE ExpSeries(r, t, n + 1, acc + t)

ExpPos(x) == FxMul(ExpTable[(x \div Scale) + 1], ExpSeries(x % Scale, Scale, 1, Scale))

\* Math.exp of an Fx value (below e^-12 the result is under the resolution).
MathExp(x) ==
    IF x >= 0 THEN ExpPos(x)
    ELSE IF -x >= 12 * Scale THEN 0
    ELSE FxDiv(Scale, ExpPos(-x))

\* 2 * atanh(z) = 2 (z + z^3/3 + z^5/5 + ...), summed until the terms vanish.
RECURSIVE AtanhSeries(_, _, _, _)
AtanhSeries(z2, pow, k, acc) ==
    LET p == FxMul(pow, z2)
        t == SignOf(p, 1) * ((Abs(p) + k \div 2) \div k)
    IN  IF t = 0 THEN acc ELSE AtanhSeries(z2, p, k + 2, acc + t)

\* Math.log of an Fx value x > 0: x = m * 2^k with 1 <= m < 2,
\* ln x = k ln 2 + 2 atanh((m - 1) / (m + 1)).
RECURSIVE LogNorm(_, _)
LogNorm(x, k) ==
    IF x >= 2 * Scale THEN LogNorm(x \div 2, k + 1)
    ELSE IF x < Scale THEN LogNorm(2 * x, k - 1)
    ELSE LET z == FxDiv(x - Scale, x + Scale)
         IN  k * 6931 + 2 * AtanhSeries(FxMul(z, z), z, 3, z)

MathLog(x) == LogNorm(x, 0)

(***************************************************************************)
(* eloRating.ts: constants.  Fx values where the source has a fraction.    *)
(***************************************************************************)
GLICKO_SCALE == 1737178

TAU == 5000

\* 1e-6 in the source, under the resolution of the model: one resolution step.
EPSILON == (Scale + 999999) \div 1000000

DEFAULT_RATING == 1500

DEFAULT_RD == 350

DEFAULT_VOLATILITY == 600

BASE_TIME_MINUTES == 20

RATING_PERIOD_DAYS == 365

C_PARAMETER == 50

MATH_PI == 31416

(***************************************************************************)
(* eloRating.ts: helper functions.                                         *)
(***************************************************************************)
toGlickoScale(rating) == FxDiv(rating - Fx(DEFAULT_RATING), GLICKO_SCALE)

fromGlickoScale(glickoRating) == FxMul(glickoRating, GLICKO_SCALE) + Fx(DEFAULT_RATING)

rdToGlickoScale(rd) == FxDiv(rd, GLICKO_SCALE)

rdFromGlickoScale(glickoRd) == FxMul(glickoRd, GLICKO_SCALE)

g(phi) ==
    FxDiv(Scale, MathSqrt(Scale + FxDiv(3 * FxMul(phi, phi), FxMul(MATH_PI, MATH_PI))))

E(mu, muJ, phiJ) == FxDiv(Scale, Scale + MathExp(-FxMul(g(phiJ), mu - muJ)))

(***************************************************************************)
(* eloRating.ts: public API.  A UserRating is                              *)
(*   [rating: Fx, rd: whole points, volatility: Fx,                        *)
(*    lastUpdated: day or 0, solveCount: Nat].                             *)
(***************************************************************************)

\* Math.round(Math.sqrt(num / den)) for whole num >= 0, den > 0, exactly:
\* the whole r with (2r - 1)^2 <= 4 num / den < (2r + 1)^2.
RoundSqrtRatio(num, den) ==
    LET r0 == ISqrt(num \div den)
    IN  IF (2 * r0 + 1) * (2 * r0 + 1) * den <= 4 * num THEN r0 + 1 ELSE r0

\* applyTimeDecay without Math.min(..., DEFAULT_RD).
applyTimeDecayUncapped(userRating, currentTime) ==
    IF userRating.lastUpdated = 0
    THEN userRating
    ELSE [userRating EXCEPT
            !.rd = RoundSqrtRatio(userRating.rd * userRating.rd * RATING_PERIOD_DAYS
                                  + C_PARAMETER * C_PARAMETER
                                    * (currentTime - userRating.lastUpdated),
                                  RATING_PERIOD_DAYS),
            !.lastUpdated = currentTime]

\* elapsedPeriods = elapsedMs / msPerPeriod is elapsed days / RATING_PERIOD_DAYS;
\* newRd^2 = rd^2 + c^2 * elapsedPeriods is kept as a fraction over RATING_PERIOD_DAYS.
\* A negative radicand (a clock before lastUpdated) makes Math.sqrt NaN; the
\* clock of the model never runs backwards.
applyTimeDecay(userRating, currentTime) ==
    IF userRating.lastUpdated = 0
    THEN userRating
    ELSE
        LET elapsedMs == currentTime - userRating.lastUpdated
            rdSquared == userRating.rd * userRating.rd
            cSquared == C_PARAMETER * C_PARAMETER
            num == rdSquared * RATING_PERIOD_DAYS + cSquared * elapsedMs
            cappedRd ==
                IF num >= DEFAULT_RD * DEFAULT_RD * RATING_PERIOD_DAYS
                THEN DEFAULT_RD
                ELSE RoundSqrtRatio(num, RATING_PERIOD_DAYS)
        IN  [userRating EXCEPT !.rd = cappedRd, !.lastUpdated = currentTime]

initializeRating(currentTime) ==
    [rating |-> Fx(DEFAULT_RATING), rd |-> DEFAULT_RD, volatility |-> DEFAULT_VOLATILITY,
     lastUpdated |-> currentTime, solveCount |-> 0]

\* timeUsed / timeLimit in IEEE arithmetic: a number, or Infinity, -Infinity
\* or NaN when the divisor is zero.
JsRatio(timeUsed, timeLimit) ==
    IF timeLimit # 0 THEN [kind |-> "num", val |-> FxDiv(Fx(timeUsed), Fx(timeLimit))]
    ELSE IF timeUsed > 0 THEN [kind |-> "inf", val |-> 0]
    ELSE IF timeUsed < 0 THEN [kind |-> "ninf", val |-> 0]
    ELSE [kind |-> "nan", val |-> 0]

\* ratio < c for an IEEE ratio.
JsLess(ratio, c) ==
    \/ ratio.kind = "ninf"
    \/ ratio.kind = "num" /\ ratio.val < c

\* ratio <= c for an IEEE ratio: false for NaN and +Infinity.
JsLeq(ratio, c) ==
    \/ ratio.kind = "ninf"
    \/ ratio.kind = "num" /\ ratio.val <= c

\* calculatePartialCredit: times in whole seconds, the score as Fx.
calculatePartialCredit(timeUsed, timeLimit, completed) ==
    IF ~completed THEN 0
    ELSE
        LET ratio == JsRatio(timeUsed, timeLimit)
        IN  IF JsLeq(ratio, Scale) THEN Scale
            ELSE IF JsLeq(ratio, 2 * Scale) THEN Scale - FxMul(ratio.val - Scale, 7000)
            ELSE 0

\* The time limit the comment above determineTimeLimit describes: the base
\* time scaled by the square root of problemRating / 1500.
determineTimeLimitScaled(problemRating, baseMinutes) ==
    MathRound(FxMul(Fx(baseMinutes * 60),
                    MathSqrt(FxDiv(Fx(problemRating), Fx(DEFAULT_RATING)))))

\* determineTimeLimit: the problem rating is not read.
determineTimeLimit(problemRating, baseMinutes) == baseMinutes * 60

\* f(x) of the volatility iteration.  The quotient by 2 s^2 is taken as two
\* quotients (by s, then by 2 s) to stay inside 32 bits.
fVol(x, deltaSquared, phiSquared, v, a) ==
    LET eX == MathExp(x)
        phiSquaredPlusV == phiSquared + v + eX
        term1 ==
            FxDiv(FxDiv(FxMul(eX, deltaSquared - phiSquared - v - eX), phiSquaredPlusV),
                  2 * phiSquaredPlusV)
        term2 == FxDiv(x - a, FxMul(TAU, TAU))
    IN  term1 - term2

\* let k = 1; while (f(a - k * TAU) < 0) k++;
RECURSIVE BracketK(_, _, _, _, _)
BracketK(k, deltaSquared, phiSquared, v, a) ==
    IF fVol(a - k * TAU, deltaSquared, phiSquared, v, a) < 0
    THEN BracketK(k + 1, deltaSquared, phiSquared, v, a)
    ELSE k

\* while (Math.abs(B - A) > EPSILON) { ... }; the value of A at exit.
\* fC * fB < 0 is taken as a test of signs, and (A - B) * fA / (fB - fA) as
\* (A - B) * (fA / (fB - fA)): the products of two small Fx values would
\* vanish.  fB = fA makes C infinite, the next C NaN, and the loop exits
\* with A as it is.
RECURSIVE Illinois(_, _, _, _, _, _, _, _)
Illinois(A, B, fA, fB, deltaSquared, phiSquared, v, a) ==
    IF ~(Abs(B - A) > EPSILON) THEN A
    ELSE IF fB = fA THEN A
    ELSE
        LET C == A + FxMul(A - B, FxDiv(fA, fB - fA))
            fC == fVol(C, deltaSquared, phiSquared, v, a)
        IN  IF (fC < 0 /\ fB > 0) \/ (fC > 0 /\ fB < 0)
            THEN Illinois(B, C, fB, fC, deltaSquared, phiSquared, v, a)
            ELSE Illinois(A, C, Half(fA), fC, deltaSquared, phiSquared, v, a)

\* Math.max(lo, x): the clamp without its upper end.
ClampBelowOnly(lo, hi, x) == Max(lo, x)

\* Math.max(lo, Math.min(hi, x)).
Clamp(lo, hi, x) == Max(lo, Min(hi, x))

\* The steps of updateRating, each handing the values it computed to the
\* next.  The new volatility: the bracket [A, B] of lines 304-316, the
\* iteration of lines 318-334 and Math.exp(A / 2) of line 336.
newVolatility(deltaSquared, phiSquared, v, a) ==
    LET B0 == IF deltaSquared > phiSquared + v
              THEN MathLog(deltaSquared - phiSquared - v)
              ELSE a - BracketK(1, deltaSquared, phiSquared, v, a) * TAU
    IN  MathExp(Half(Illinois(a, B0, fVol(a, deltaSquared, phiSquared, v, a),
                              fVol(B0, deltaSquared, phiSquared, v, a),
                              deltaSquared, phiSquared, v, a)))

\* phiStar and newPhi.
newDeviation(phiSquared, newSigma, v) ==
    LET phiStar == MathSqrt(phiSquared + FxMul(newSigma, newSigma))
    IN  FxDiv(Scale, MathSqrt(FxDiv(Scale, FxMul(phiStar, phiStar)) + FxDiv(Scale, v)))

\* newMu, the conversion back, the clamps and the rounded result.
updatedRating(decayedRating, mu, gPhiJ, expectedScore, newSigma, newPhi, actualOutcome, currentTime) ==
    LET newMu == mu + FxMul(FxMul(FxMul(newPhi, newPhi), gPhiJ),
                            actualOutcome - expectedScore)
        newRating == Clamp(Fx(800), Fx(3500), fromGlickoScale(newMu))
        newRd == Clamp(Fx(30), Fx(350), rdFromGlickoScale(newPhi))
    IN  [rating |-> Fx(MathRound(newRating)), rd |-> MathRound(newRd),
         volatility |-> newSigma, lastUpdated |-> currentTime,
         solveCount |-> decayedRating.solveCount + 1]

\* From the new volatility on.
updateFromVolatility(decayedRating, mu, phiSquared, gPhiJ, expectedScore, v, newSigma, actualOutcome, currentTime) ==
    updatedRating(decayedRating, mu, gPhiJ, expectedScore, newSigma,
                  newDeviation(phiSquared, newSigma, v), actualOutcome, currentTime)

\* delta, a, deltaSquared and the volatility.
updateFromVariance(decayedRating, mu, phiSquared, gPhiJ, expectedScore, v, actualOutcome, currentTime) ==
    LET delta == FxMul(FxMul(v, gPhiJ), actualOutcome - expectedScore)
        a == MathLog(FxMul(decayedRating.volatility, decayedRating.volatility))
    IN  updateFromVolatility(decayedRating, mu, phiSquared, gPhiJ, expectedScore, v,
                             newVolatility(FxMul(delta, delta), phiSquared, v, a),
                             actualOutcome, currentTime)

\* v, the estimated variance.
updateFromExpected(decayedRating, mu, phi, gPhiJ, expectedScore, actualOutcome, currentTime) ==
    updateFromVariance(decayedRating, mu, FxMul(phi, phi), gPhiJ, expectedScore,
                       FxDiv(Scale, FxMul(FxMul(FxMul(gPhiJ, gPhiJ), expectedScore),
                                          Scale - expectedScore)),
                       actualOutcome, currentTime)

\* mu, phi, muJ, phiJ, g(phiJ) and the expected score.
updateDecayed(decayedRating, problemRating, actualOutcome, currentTime) ==
    LET mu == toGlickoScale(decayedRating.rating)
        muJ == toGlickoScale(Fx(problemRating))
        phiJ == rdToGlickoScale(Fx(50))
    IN  updateFromExpected(decayedRating, mu, rdToGlickoScale(Fx(decayedRating.rd)),
                           g(phiJ), E(mu, muJ, phiJ), actualOutcome, currentTime)

\* updateRating(userRating, _problemRating, actualOutcome), with Date.now() =
\* currentTime; the problem rating is in whole points, the outcome is Fx.
updateRating(userRating, problemRating, actualOutcome, currentTime) ==
    updateDecayed(applyTimeDecay(userRating, currentTime), problemRating,
                  actualOutcome, currentTime)

(***************************************************************************)
(* ratingSyncIntegration: the synchronous part of updateRatingsFromSolve   *)
(* and updateRatingsFromSolves.  A Solve has a rating in whole points (0   *)
(* for a missing one), a status, a timeUsed in seconds (0 for none) and a  *)
(* sequence of tags.  UserRatings is [global, categories], categories a    *)
(* function from the tags that have a rating.                              *)
(***************************************************************************)
\* !solve.rating || solve.rating <= 0 is the negation.
IsRated(solve) == solve.rating > 0

\* The outcome score without the timing branch.
outcomeScoreBinary(solve) == IF solve.status = "Accepted" THEN Scale ELSE 1000

outcomeScore(solve) ==
    IF solve.timeUsed > 0
    THEN calculatePartialCredit(solve.timeUsed,
                                determineTimeLimit(solve.rating, BASE_TIME_MINUTES),
                                solve.status = "Accepted")
    ELSE IF solve.status = "Accepted" THEN Scale ELSE 1000

\* A new category's rating, a copy of the global one.
newCategoryRatingCopied(global, currentTime) == global

\* { ...initializeRating(), rating: global.rating, rd: Math.max(200, global.rd) }
newCategoryRating(global, currentTime) ==
    [initializeRating(currentTime) EXCEPT !.rating = global.rating,
                                          !.rd = Max(200, global.rd)]

\* for (const tag of solve.tags) { ... }, from index i on.
RECURSIVE updateCategories(_, _, _, _, _, _, _)
updateCategories(categories, tags, i, global, problemRating, outcome, currentTime) ==
    IF i > Len(tags) THEN categories
    ELSE IF tags[i] = "Random"
    THEN updateCategories(categories, tags, i + 1, global, problemRating, outcome,
                          currentTime)
    ELSE
        LET categoryRating ==
                IF tags[i] \in DOMAIN categories THEN categories[tags[i]]
                ELSE newCategoryRating(global, currentTime)
        IN  updateCategories(
                [t \in DOMAIN categories \cup {tags[i]} |->
                    IF t = tags[i]
                    THEN updateRating(categoryRating, problemRating, outcome, currentTime)
                    ELSE categories[t]],
                tags, i + 1, global, problemRating, outcome, currentTime)

\* The categories, given the global rating already updated.
withCategories(ratings, global, solve, outcome, currentTime) ==
    [ratings EXCEPT
        !.global = global,
        !.categories = updateCategories(ratings.categories, solve.tags, 1, global,
                                        solve.rating, outcome, currentTime)]

\* One rated solve applied to the ratings in memory.
applySolve(ratings, solve, currentTime) ==
    withCategories(ratings,
                   updateRating(ratings.global, solve.rating, outcomeScore(solve),
                                currentTime),
                   solve, outcomeScore(solve), currentTime)

\* for (const solve of solves) { if (unrated) continue; ... }, from index i on.
RECURSIVE applySolves(_, _, _, _)
applySolves(ratings, solves, i, currentTime) ==
    IF i > Len(solves) THEN ratings
    ELSE IF ~IsRated(solves[i]) THEN applySolves(ratings, solves, i + 1, currentTime)
    ELSE applySolves(applySolve(ratings, solves[i], currentTime), solves, i + 1,
                     currentTime)

\* updatedCount at the end of the loop.
RECURSIVE updatedCount(_, _)
updatedCount(solves, i) ==
    IF i > Len(solves) THEN 0
    ELSE (IF IsRated(solves[i]) THEN 1 ELSE 0) + updatedCount(solves, i + 1)

\* { global: initializeRating(), categories: {} } of initializeRatings.
defaultRatings(currentTime) ==
    [exists |-> TRUE, global |-> initializeRating(currentTime),
     categories |-> [t \in {} |-> 0]]

(***************************************************************************)
(* Values that stand for "nothing yet", and the bounds of the model.       *)
(***************************************************************************)
NoCall == [op |-> "none"]

NoSession == [exists |-> FALSE]

NoRatings == [exists |-> FALSE]

NoCalibration == [exists |-> FALSE]

NoFrames == [c \in {} |-> 0]

\* The clock advances TickDays at a time, MaxTicks times.
TickDays == 400

MaxTicks == 1

\* The largest |user rating - problem rating| of an update, in rating points:
\* beyond it the variance v leaves the 32-bit range of the fixed-point form.
MaxGap == 450

\* The longest run of updateRating calls on one record.
MaxUpdates == 2

Tick ==
    /\ now < 1 + MaxTicks * TickDays
    /\ now' = now + TickDays

InRatingBounds(r) ==
    /\ r.rating >= Fx(800) /\ r.rating <= Fx(3500)
    /\ r.rd >= 30 /\ r.rd <= 350

(***************************************************************************)
(* SpecCredit: calculatePartialCredit on every input of a grid.  Times are *)
(* in units of a minute; only the ratio matters to the function.           *)
(***************************************************************************)
MaxTimeUsed == 40

MaxTimeLimit == 12

CallPartialCredit ==
    \E timeUsed \in 0..MaxTimeUsed, timeLimit \in -3..MaxTimeLimit, completed \in BOOLEAN :
        /\ call' = [op |-> "calculatePartialCredit", timeUsed |-> timeUsed,
                    timeLimit |-> timeLimit, completed |-> completed,
                    result |-> calculatePartialCredit(timeUsed, timeLimit, completed)]
        /\ UNCHANGED <<now, rec, session, store, frames, cal, finalized>>

InitIdle ==
    /\ now = 1
    /\ call = NoCall
    /\ rec = initializeRating(1)
    /\ session = NoSession
    /\ store = NoRatings
    /\ frames = NoFrames
    /\ cal = NoCalibration
    /\ finalized = NoRatings

NextCredit == CallPartialCredit

SpecCredit == InitIdle /\ [][NextCredit]_vars

\* C3: for a positive time limit L and a time used t >= 0 the credit is 0 when
\* the problem was not completed, 1.0 when t <= L, 1 - (t/L - 1) * 0.7 when
\* L < t <= 2L (0.65 at 1.5 L, 0.3 at 2 L; the formula to within two steps of
\* the fixed-point resolution), 0 when t > 2L, and always within [0, 1].
C3_PartialCreditPiecewise ==
    (call.op = "calculatePartialCredit" /\ call.timeLimit > 0) =>
        LET t == call.timeUsed
            L == call.timeLimit
            c == call.result
        IN  /\ c >= 0 /\ c <= Scale
            /\ ~call.completed => c = 0
            /\ (call.completed /\ t <= L) => c = Scale
            /\ (call.completed /\ L < t /\ t <= 2 * L) =>
                    Abs(c * 10 * L - (17 * L - 7 * t) * Scale) <= 20 * L
            /\ (call.completed /\ 2 * t = 3 * L) => c = 6500
            /\ (call.completed /\ t = 2 * L) => c = 3000
            /\ (call.completed /\ t > 2 * L) => c = 0

C3_Witness ==
    /\ call.op = "calculatePartialCredit"
    /\ call.completed /\ call.timeLimit = 12 /\ call.timeUsed = 18
    /\ call.result = 6500

\* C4: for a time limit <= 0 and a time used >= 0, a completed attempt gets
\* zero credit.
C4_NonPositiveLimitZeroCredit ==
    (/\ call.op = "calculatePartialCredit"
     /\ call.completed /\ call.timeLimit <= 0 /\ call.timeUsed >= 0)
        => call.result = 0

(***************************************************************************)
(* SpecDecay: applyTimeDecay on a grid of ratings and times, and again on  *)
(* the same rating at a later time.                                        *)
(***************************************************************************)
DecayRatings ==
    {[rating |-> Fx(1500), rd |-> d, volatility |-> DEFAULT_VOLATILITY,
      lastUpdated |-> l, solveCount |-> n] :
        d \in {30, 31, 100, 248, 349, 350}, l \in {0, 1, 366}, n \in {0, 7}}

ElapsedDays == {0, 1, 30, 365, 1000, 3650, 18000, 20000}

CallApplyTimeDecay ==
    \E u \in DecayRatings, e \in ElapsedDays :
        /\ call' = [op |-> "applyTimeDecay", userRating |-> u,
                    currentTime |-> u.lastUpdated + e,
                    result |-> applyTimeDecay(u, u.lastUpdated + e),
                    hasEarlier |-> FALSE, earlier |-> u]
        /\ UNCHANGED <<now, rec, session, store, frames, cal, finalized>>

\* The same rating once more, after a longer inactivity.
CallApplyTimeDecayLater ==
    /\ call.op = "applyTimeDecay"
    /\ \E e \in ElapsedDays :
        /\ call.userRating.lastUpdated + e > call.currentTime
        /\ call' = [op |-> "applyTimeDecay", userRating |-> call.userRating,
                    currentTime |-> call.userRating.lastUpdated + e,
                    result |-> applyTimeDecay(call.userRating,
                                              call.userRating.lastUpdated + e),
                    hasEarlier |-> TRUE, earlier |-> call.result]
    /\ UNCHANGED <<now, rec, session, store, frames, cal, finalized>>

NextDecay == CallApplyTimeDecay \/ CallApplyTimeDecayLater

SpecDecay == InitIdle /\ [][NextDecay]_vars

\* C6: applyTimeDecay returns its input when lastUpdated is unset (zero);
\* otherwise, for rd <= 350 and now >= lastUpdated, the returned rd is at least
\* the input rd, at most 350, no smaller than after a shorter inactivity, and
\* rating, volatility and solveCount are unchanged with lastUpdated = now.
C6_TimeDecay ==
    call.op = "applyTimeDecay" =>
        LET u == call.userRating
            r == call.result
        IN  /\ u.lastUpdated = 0 => r = u
            /\ u.lastUpdated # 0 =>
                    /\ r.rd >= u.rd /\ r.rd <= 350
                    /\ r.rating = u.rating /\ r.volatility = u.volatility
                    /\ r.solveCount = u.solveCount
                    /\ r.lastUpdated = call.currentTime
            /\ call.hasEarlier => r.rd >= call.earlier.rd

C6_Witness ==
    /\ call.op = "applyTimeDecay" /\ call.hasEarlier
    /\ call.userRating.lastUpdated # 0
    /\ call.earlier.rd > call.userRating.rd
    /\ call.result.rd > call.earlier.rd
    /\ call.result.rd = 350

(***************************************************************************)
(* SpecUpdate: updateRating, repeatedly, from initializeRating() and from  *)
(* every rating of a grid of valid UserRatings.                            *)
(***************************************************************************)
ValidRatings ==
    {[rating |-> r, rd |-> d, volatility |-> s, lastUpdated |-> l, solveCount |-> 0] :
        r \in {Fx(800), Fx(1500), Fx(3500)}, d \in {30, 350},
        s \in {DEFAULT_VOLATILITY, 2000}, l \in {0, 1}}

ProblemRatings == {800, 1100, 1900, 3500}

OutcomeScores == {0, 5000, 6500, Scale}

InitUpdate ==
    /\ now = 1
    /\ call = NoCall
    /\ rec \in ValidRatings \cup {initializeRating(1)}
    /\ session = NoSession
    /\ store = NoRatings
    /\ frames = NoFrames
    /\ cal = NoCalibration
    /\ finalized = NoRatings

CallUpdateRating ==
    \E problemRating \in ProblemRatings, actualOutcome \in OutcomeScores :
        /\ rec.solveCount < MaxUpdates
        /\ Abs(rec.rating - Fx(problemRating)) <= Fx(MaxGap)
        /\ rec' = updateRating(rec, problemRating, actualOutcome, now)
        /\ call' = [op |-> "updateRating", userRating |-> rec,
                    problemRating |-> problemRating, actualOutcome |-> actualOutcome,
                    result |-> rec']
        /\ UNCHANGED <<now, session, store, frames, cal, finalized>>

TickUpdate == Tick /\ UNCHANGED <<call, rec, session, store, frames, cal, finalized>>

NextUpdate == CallUpdateRating \/ TickUpdate

SpecUpdate == InitUpdate /\ [][NextUpdate]_vars

\* C1: updateRating on a valid rating, a positive problem rating and an
\* outcome in [0, 1] returns a rating in [800, 3500] and an rd in [30, 350];
\* so does every rating reached by updates from initializeRating().
C1_UpdateRatingBounded ==
    /\ InRatingBounds(rec)
    /\ call.op = "updateRating" => InRatingBounds(call.result)

\* A win at the ceiling: the upper clamp of the rating is what holds it.
C1_Witness ==
    /\ call.op = "updateRating"
    /\ call.userRating.rating = Fx(3500) /\ call.actualOutcome = Scale
    /\ call.result.rating = Fx(3500)
    /\ call.result.solveCount = 2

(***************************************************************************)
(* SpecSession: determineTimeLimit, and the session store under            *)
(* startSolveSession and endSolveSession.  A put or a delete of IndexedDB   *)
(* either succeeds or rejects.                                             *)
(***************************************************************************)
Username == "alice"

\* A Problem: its rating may be missing (problem.rating || 1500).
Problems ==
    {[slug |-> sl, hasRating |-> h, rating |-> IF h THEN r ELSE 0] :
        sl \in {"two-sum", "lru-cache"}, h \in BOOLEAN, r \in {800, 1500, 2400, 3500}}

RatingOrDefault(problem) ==
    IF problem.hasRating /\ problem.rating # 0 THEN problem.rating ELSE DEFAULT_RATING

NewSolveSession(username, problem, currentTime) ==
    [exists |-> TRUE, problem |-> problem,
     timeLimit |-> determineTimeLimit(RatingOrDefault(problem), BASE_TIME_MINUTES),
     startedAt |-> currentTime, username |-> username, isActive |-> TRUE]

CallDetermineTimeLimit ==
    \E problemRating \in {0, 800, 1200, 1500, 1800, 2200, 3500} :
        /\ call' = [op |-> "determineTimeLimit", problemRating |-> problemRating,
                    result |-> determineTimeLimit(problemRating, BASE_TIME_MINUTES)]
        /\ UNCHANGED <<now, rec, session, store, frames, cal, finalized>>

StartSolveSessionOk ==
    \E problem \in Problems :
        /\ session' = NewSolveSession(Username, problem, now)
        /\ call' = [op |-> "startSolveSession", problem |-> problem,
                    result |-> "resolved", session |-> session']
        /\ UNCHANGED <<now, rec, store, frames, cal, finalized>>

StartSolveSessionFail ==
    \E problem \in Problems :
        /\ call' = [op |-> "startSolveSession", problem |-> problem,
                    result |-> "rejected", session |-> NoSession]
        /\ UNCHANGED <<now, rec, session, store, frames, cal, finalized>>

EndSolveSessionOk ==
    /\ session' = NoSession
    /\ call' = [op |-> "endSolveSession", result |-> "resolved"]
    /\ UNCHANGED <<now, rec, store, frames, cal, finalized>>

EndSolveSessionFail ==
    /\ call' = [op |-> "endSolveSession", result |-> "rejected"]
    /\ UNCHANGED <<now, rec, session, store, frames, cal, finalized>>

TickSession == Tick /\ UNCHANGED <<call, rec, session, store, frames, cal, finalized>>

NextSession ==
    \/ CallDetermineTimeLimit
    \/ StartSolveSessionOk
    \/ StartSolveSessionFail
    \/ EndSolveSessionOk
    \/ EndSolveSessionFail
    \/ TickSession

SpecSession == InitIdle /\ [][NextSession]_vars

Solves ==
    {[slug |-> "unrated", rating |-> 0, status |-> "Accepted", timeUsed |-> 0,
      tags |-> <<"Array">>],
     [slug |-> "two-sum", rating |-> 1500, status |-> "Accepted", timeUsed |-> 0,
      tags |-> <<"Array", "Random">>],
     [slug |-> "course-schedule", rating |-> 1900, status |-> "Wrong Answer",
      timeUsed |-> 0, tags |-> <<"Array", "Graph">>],
     [slug |-> "lru-cache", rating |-> 1500, status |-> "Accepted", timeUsed |-> 1800,
      tags |-> <<>>],
     [slug |-> "clone-graph", rating |-> 1900, status |-> "Accepted", timeUsed |-> 3000,
      tags |-> <<"Graph">>]}

\* The longest batch of updateRatingsFromSolves.
MaxBatch == 2

Batches == UNION {[1..n -> Solves] : n \in 0..MaxBatch}

\* The stores a call may find: none, the default record, and a record after
\* one solve of an Array problem.
InitialStores ==
    {NoRatings, defaultRatings(1),
     applySolve(defaultRatings(1),
                [slug |-> "two-sum", rating |-> 1500, status |-> "Accepted",
                 timeUsed |-> 0, tags |-> <<"Array", "Random">>], 1)}

IdleFrame ==
    [pc |-> "idle", op |-> "none", solves |-> <<>>, ratings |-> NoRatings,
     before |-> NoRatings, writes |-> 0, events |-> 0, result |-> "pending"]

Init ==
    /\ now = 1
    /\ call = NoCall
    /\ rec = initializeRating(1)
    /\ session = NoSession
    /\ store \in InitialStores
    /\ frames = [c \in {"sync"} |-> IdleFrame]
    /\ cal = NoCalibration
    /\ finalized = NoRatings

\* updateRatingsFromSolve up to its first await: an unrated solve returns.
BeginUpdateRatingsFromSolve(c) ==
    /\ frames[c].pc = "idle"
    /\ \E solve \in Solves :
        frames' = [frames EXCEPT ![c] =
            [@ EXCEPT !.op = "updateRatingsFromSolve", !.solves = <<solve>>,
                      !.before = store,
                      !.pc = IF IsRated(solve) THEN "getRatings" ELSE "done",
                      !.result = IF IsRated(solve) THEN "pending" ELSE "resolved"]]
    /\ UNCHANGED <<now, call, rec, session, store, cal, finalized>>

\* updateRatingsFromSolves up to its first await: an empty batch returns.
BeginUpdateRatingsFromSolves(c) ==
    /\ frames[c].pc = "idle"
    /\ \E solves \in Batches :
        frames' = [frames EXCEPT ![c] =
            [@ EXCEPT !.op = "updateRatingsFromSolves", !.solves = solves,
                      !.before = store,
                      !.pc = IF Len(solves) = 0 THEN "done" ELSE "getRatings",
                      !.result = IF Len(solves) = 0 THEN "resolved" ELSE "pending"]]
    /\ UNCHANGED <<now, call, rec, session, store, cal, finalized>>

\* The frame once the ratings are in memory, were the event dispatched
\* before the await of saveRatings.
afterLoadNotifying(frame, ratings, currentTime) ==
    [frame EXCEPT !.ratings = applySolves(ratings, frame.solves, 1, currentTime),
                  !.events = @ + 1, !.pc = "saveRatings"]

\* The frame once the ratings are in memory: the solves are applied, and the
\* call awaits saveRatings, or returns when the batch had no rated solve.
afterLoad(frame, ratings, currentTime) ==
    IF frame.op = "updateRatingsFromSolves" /\ updatedCount(frame.solves, 1) = 0
    THEN [frame EXCEPT !.ratings = ratings, !.pc = "done", !.result = "resolved"]
    ELSE [frame EXCEPT !.ratings = applySolves(ratings, frame.solves, 1, currentTime),
                       !.pc = "saveRatings"]

\* getRatings resolves: with the record, or with null, and then
\* initializeRatings builds the default record and awaits its saveRatings.
GetRatingsOk(c) ==
    /\ frames[c].pc = "getRatings"
    /\ frames' = [frames EXCEPT ![c] =
            IF store.exists
            THEN afterLoad(@, store, now)
            ELSE [@ EXCEPT !.ratings = defaultRatings(now), !.pc = "initializeRatings"]]
    /\ UNCHANGED <<now, call, rec, session, store, cal, finalized>>

GetRatingsFail(c) ==
    /\ frames[c].pc = "getRatings"
    /\ frames' = [frames EXCEPT ![c] = [@ EXCEPT !.pc = "done", !.result = "rejected"]]
    /\ UNCHANGED <<now, call, rec, session, store, cal, finalized>>

\* The saveRatings of initializeRatings resolves: the default record is stored.
InitializeRatingsOk(c) ==
    /\ frames[c].pc = "initializeRatings"
    /\ store' = frames[c].ratings
    /\ frames' = [frames EXCEPT ![c] =
            afterLoad([@ EXCEPT !.writes = @ + 1], frames[c].ratings, now)]
    /\ UNCHANGED <<now, call, rec, session, cal, finalized>>

InitializeRatingsFail(c) ==
    /\ frames[c].pc = "initializeRatings"
    /\ frames' = [frames EXCEPT ![c] = [@ EXCEPT !.pc = "done", !.result = "rejected"]]
    /\ UNCHANGED <<now, call, rec, session, store, cal, finalized>>

\* The final saveRatings resolves; RATINGS_UPDATED_EVENT is dispatched.
SaveRatingsOk(c) ==
    /\ frames[c].pc = "saveRatings"
    /\ store' = frames[c].ratings
    /\ frames' = [frames EXCEPT ![c] =
            [@ EXCEPT !.writes = @ + 1, !.events = @ + 1, !.pc = "done",
                      !.result = "resolved"]]
    /\ UNCHANGED <<now, call, rec, session, cal, finalized>>

SaveRatingsFail(c) ==
    /\ frames[c].pc = "saveRatings"
    /\ frames' = [frames EXCEPT ![c] = [@ EXCEPT !.pc = "done", !.result = "rejected"]]
    /\ UNCHANGED <<now, call, rec, session, store, cal, finalized>>

TickSync == Tick /\ UNCHANGED <<call, rec, session, store, frames, cal, finalized>>

Next ==
    \/ \E c \in DOMAIN frames : BeginUpdateRatingsFromSolve(c)
    \/ \E c \in DOMAIN frames : BeginUpdateRatingsFromSolves(c)
    \/ \E c \in DOMAIN frames : GetRatingsOk(c)
    \/ \E c \in DOMAIN frames : GetRatingsFail(c)
    \/ \E c \in DOMAIN frames : InitializeRatingsOk(c)
    \/ \E c \in DOMAIN frames : InitializeRatingsFail(c)
    \/ \E c \in DOMAIN frames : SaveRatingsOk(c)
    \/ \E c \in DOMAIN frames : SaveRatingsFail(c)
    \/ TickSync

Spec == Init /\ [][Next]_vars

\* The rated solves of a batch, and those among them that carry a tag.
RatedSolves(solves) == {i \in 1..Len(solves) : solves[i].rating > 0}

RatedCarrying(solves, tag) ==
    {i \in RatedSolves(solves) : \E k \in 1..Len(solves[i].tags) : solves[i].tags[k] = tag}

GlobalCount(ratings) == IF ratings.exists THEN ratings.global.solveCount ELSE 0

CategoryCount(ratings, tag) ==
    IF ratings.exists /\ tag \in DOMAIN ratings.categories
    THEN ratings.categories[tag].solveCount
    ELSE 0

\* C7: after a sync call resolves, the stored global solveCount is the one
\* before the call plus the number of rated solves, and for every tag other
\* than "Random" the stored category solveCount is the one before (0 if the
\* category was absent) plus the number of rated solves carrying the tag.
C7_SolveCountsAdvance ==
    \A c \in DOMAIN frames :
        (frames[c].pc = "done" /\ frames[c].result = "resolved") =>
            /\ GlobalCount(store) =
                    GlobalCount(frames[c].before)
                    + Cardinality(RatedSolves(frames[c].solves))
            /\ \A tag \in {"Array", "Graph"} :
                    CategoryCount(store, tag) =
                        CategoryCount(frames[c].before, tag)
                        + Cardinality(RatedCarrying(frames[c].solves, tag))

\* A batch of two rated solves, both carrying Array, one carrying Graph, on
\* a record whose Array category had one solve.
C7_Witness ==
    \E c \in DOMAIN frames :
        /\ frames[c].op = "updateRatingsFromSolves"
        /\ frames[c].pc = "done" /\ frames[c].result = "resolved"
        /\ Len(frames[c].solves) = 2
        /\ CategoryCount(frames[c].before, "Array") = 1
        /\ CategoryCount(frames[c].before, "Graph") = 0
        /\ CategoryCount(store, "Array") = 3
        /\ CategoryCount(store, "Graph") = 1
        /\ GlobalCount(store) = 3

\* C8: a call whose solves all lack a positive rating leaves the stored
\* record as it was, also when there was none, and dispatches no event.
C8_UnratedSolveSkipped ==
    \A c \in DOMAIN frames :
        (frames[c].op # "none" /\ RatedSolves(frames[c].solves) = {}) =>
            /\ store = frames[c].before
            /\ frames[c].events = 0

\* C9: a call of updateRatingsFromSolves that processed at least one rated
\* solve and resolved has written the record exactly once, whether or not a
\* record existed before.
C9_BatchWritesOnce ==
    \A c \in DOMAIN frames :
        (/\ frames[c].op = "updateRatingsFromSolves"
         /\ frames[c].pc = "done" /\ frames[c].result = "resolved"
         /\ RatedSolves(frames[c].solves) # {})
            => frames[c].writes = 1

\* C10: when a storage call of a sync function fails, the call rejects with
\* the stored record identical to the one before the call, absent included.
C10_FailureLeavesStoreUntouched ==
    \A c \in DOMAIN frames :
        frames[c].result = "rejected" => store = frames[c].before

\* C11: a sync call dispatches the ratings-updated event exactly once when it
\* applied a rated solve and its saveRatings resolved, and never otherwise:
\* not while the call is running, not when it skipped every solve, not when
\* a storage call rejected; when the event is out, the record in the store is
\* the one the call saved.
C11_EventOnceAfterSave ==
    \A c \in DOMAIN frames :
        /\ frames[c].events \in {0, 1}
        /\ frames[c].events = 1 <=>
                /\ frames[c].pc = "done" /\ frames[c].result = "resolved"
                /\ RatedSolves(frames[c].solves) # {}
        /\ frames[c].events = 1 =>
                /\ frames[c].writes >= 1
                /\ store = frames[c].ratings

C11_Witness ==
    \E c \in DOMAIN frames :
        /\ frames[c].op = "updateRatingsFromSolve"
        /\ frames[c].pc = "done" /\ frames[c].result = "resolved"
        /\ frames[c].events = 1
        /\ store = frames[c].ratings /\ store # frames[c].before

\* The score the sync is to pass for a solve: partial credit against 1200
\* seconds when the solve has a timeUsed, else 1.0 or 0.1 by its status.
ScoreToPass(solve) ==
    IF solve.timeUsed > 0
    THEN calculatePartialCredit(solve.timeUsed, 1200, solve.status = "Accepted")
    ELSE IF solve.status = "Accepted" THEN Scale ELSE 1000

\* The ratings a call had in memory before its solves were applied: the
\* stored record, or the default record made at some earlier time.
LoadedBy(frame) ==
    IF frame.before.exists THEN {frame.before}
    ELSE {defaultRatings(t) : t \in {1 + k * TickDays : k \in 0..MaxTicks}}

\* C12: for a call with one rated solve that has applied it (it awaits
\* saveRatings or has resolved), the global rating in memory is
\* updateRating of the loaded global rating with the solve's rating and the
\* score above, and every category of a tag other than "Random" is
\* updateRating of that category (or of its seed from the new global rating)
\* with the same problem rating and the same score.
C12_OutcomeScorePassed ==
    \A c \in DOMAIN frames :
        (/\ \/ frames[c].pc = "saveRatings"
            \/ frames[c].pc = "done" /\ frames[c].result = "resolved"
         /\ Cardinality(RatedSolves(frames[c].solves)) = 1) =>
            \E loaded \in LoadedBy(frames[c]) :
                LET solve == frames[c].solves[CHOOSE i \in RatedSolves(frames[c].solves) : TRUE]
                    after == frames[c].ratings
                    t == after.global.lastUpdated
                IN  /\ after.global =
                            updateRating(loaded.global, solve.rating, ScoreToPass(solve), t)
                    /\ \A k \in 1..Len(solve.tags) :
                            solve.tags[k] # "Random" =>
                                after.categories[solve.tags[k]] =
                                    updateRating(
                                        IF solve.tags[k] \in DOMAIN loaded.categories
                                        THEN loaded.categories[solve.tags[k]]
                                        ELSE newCategoryRating(after.global, t),
                                        solve.rating, ScoreToPass(solve), t)

\* A solve with a timeUsed over the limit, scored 0.65, on a record with
\* categories.
C12_Witness ==
    \E c \in DOMAIN frames :
        /\ frames[c].pc = "done" /\ frames[c].result = "resolved"
        /\ Len(frames[c].solves) = 1
        /\ frames[c].solves[1].timeUsed = 1800
        /\ ScoreToPass(frames[c].solves[1]) = 6500
        /\ frames[c].before.exists
        /\ store.global.solveCount = frames[c].before.global.solveCount + 1

(***************************************************************************)
(* SpecCalibration: initializeCalibration, processCalibrationAttempt on    *)
(* attempts made by createTimedAttempt, and finalizeCalibration, whose     *)
(* Math.random() is a choice of the jitter of each category.               *)
(***************************************************************************)
MIN_CATEGORY_ATTEMPTS == 2

createTimedAttempt(problem, timeUsed, completed, currentTime) ==
    [slug |-> problem.slug,
     problemRating |-> IF problem.rating # 0 THEN problem.rating ELSE DEFAULT_RATING,
     category |-> IF Len(problem.tags) > 0 THEN problem.tags[1] ELSE "Array",
     timeLimit |-> determineTimeLimit(
                       IF problem.rating # 0 THEN problem.rating ELSE DEFAULT_RATING,
                       BASE_TIME_MINUTES),
     timeUsed |-> timeUsed, completed |-> completed, timestamp |-> currentTime]

initializeCalibration(username, currentTime) ==
    [exists |-> TRUE, username |-> username, startedAt |-> currentTime,
     attempts |-> <<>>, currentRating |-> initializeRating(currentTime),
     isComplete |-> FALSE]

\* processCalibrationAttempt keeping only the new attempt in the list.
processCalibrationAttemptAlone(state, attempt, currentTime) ==
    [state EXCEPT
        !.attempts = <<attempt>>,
        !.currentRating =
            updateRating(@, attempt.problemRating,
                         calculatePartialCredit(attempt.timeUsed, attempt.timeLimit,
                                                attempt.completed),
                         currentTime)]

processCalibrationAttempt(state, attempt, currentTime) ==
    [state EXCEPT
        !.attempts = Append(@, attempt),
        !.currentRating =
            updateRating(@, attempt.problemRating,
                         calculatePartialCredit(attempt.timeUsed, attempt.timeLimit,
                                                attempt.completed),
                         currentTime)]

\* Every attempt, whatever its category.
attemptsOfAny(attempts, category, i) == attempts

\* The attempts of one category, in the order made.
RECURSIVE attemptsOf(_, _, _)
attemptsOf(attempts, category, i) ==
    IF i > Len(attempts) THEN <<>>
    ELSE IF attempts[i].category = category
    THEN <<attempts[i]>> \o attemptsOf(attempts, category, i + 1)
    ELSE attemptsOf(attempts, category, i + 1)

\* for (const attempt of attempts) categoryRating = updateRating(...), from i on.
RECURSIVE replayAttempts(_, _, _, _)
replayAttempts(categoryRating, attempts, i, currentTime) ==
    IF i > Len(attempts) THEN categoryRating
    ELSE replayAttempts(
            updateRating(categoryRating, attempts[i].problemRating,
                         calculatePartialCredit(attempts[i].timeUsed,
                                                attempts[i].timeLimit,
                                                attempts[i].completed),
                         currentTime),
            attempts, i + 1, currentTime)

\* The rating of a category that has attempts; jitter is the whole number
\* Math.round leaves of (Math.random() - 0.5) * 100.
calibratedCategory(globalRating, attempts, jitter, currentTime) ==
    IF Len(attempts) >= MIN_CATEGORY_ATTEMPTS
    THEN [replayAttempts(initializeRating(currentTime), attempts, 1, currentTime)
            EXCEPT !.solveCount = Len(attempts)]
    ELSE [globalRating EXCEPT
            !.rating = Fx(Max(800, Min(3000, globalRating.rating \div Scale + jitter))),
            !.rd = Max(200, globalRating.rd + 50),
            !.solveCount = Len(attempts)]

finalizeCalibrationFrom(state, globalRating, jitters, currentTime) ==
    [exists |-> TRUE, global |-> globalRating,
     categories |->
        [category \in {state.attempts[i].category : i \in 1..Len(state.attempts)}
                        \ {"Random"} |->
            calibratedCategory(globalRating, attemptsOf(state.attempts, category, 1),
                               IF category \in DOMAIN jitters THEN jitters[category]
                               ELSE 0,
                               currentTime)]]

finalizeCalibration(state, jitters, currentTime) ==
    IF Len(state.attempts) = 0
    THEN defaultRatings(currentTime)
    ELSE finalizeCalibrationFrom(
            state, [state.currentRating EXCEPT !.solveCount = Len(state.attempts)],
            jitters, currentTime)

CalibrationProblems ==
    {[slug |-> "two-sum", rating |-> 1500, tags |-> <<"Array">>],
     [slug |-> "trapping-rain-water", rating |-> 1900, tags |-> <<"Array">>],
     [slug |-> "course-schedule", rating |-> 1900, tags |-> <<"Graph">>],
     [slug |-> "shuffle", rating |-> 0, tags |-> <<"Random">>]}

\* (timeUsed, completed) of an attempt: solved in time, given up.
AttemptOutcomes == {<<600, TRUE>>, <<600, FALSE>>}

Jitters == {-50, 50}

\* The most attempts of one calibration.
MaxAttempts == 3

InitializeCalibration ==
    /\ ~cal.exists
    /\ cal' = initializeCalibration(Username, now)
    /\ UNCHANGED <<now, call, rec, session, store, frames, finalized>>

\* processCalibrationAttempt reads no flag of the state: an attempt is
\* processed before and after finalizeCalibration alike.
\* Every problem is solved in time; two-sum is also given up.
ProcessCalibrationAttempt ==
    /\ cal.exists
    /\ Len(cal.attempts) < MaxAttempts
    /\ \E problem \in CalibrationProblems, o \in AttemptOutcomes :
        /\ o[2] \/ problem.slug = "two-sum"
        /\ Abs(cal.currentRating.rating
               - Fx(createTimedAttempt(problem, o[1], o[2], now).problemRating))
              <= Fx(MaxGap)
        /\ cal' = processCalibrationAttempt(
                      cal, createTimedAttempt(problem, o[1], o[2], now), now)
    /\ UNCHANGED <<now, call, rec, session, store, frames, finalized>>

\* The categories finalizeCalibration draws a jitter for.
jitteredCategories(state) ==
    {category \in {state.attempts[i].category : i \in 1..Len(state.attempts)}
                    \ {"Random"} :
        Len(attemptsOf(state.attempts, category, 1)) < MIN_CATEGORY_ATTEMPTS}

\* finalizeCalibration, called once on the state as it is; the state itself
\* is not written.
FinalizeCalibration ==
    /\ cal.exists
    /\ ~finalized.exists
    /\ \E jitters \in [jitteredCategories(cal) -> Jitters] :
        /\ finalized' = finalizeCalibration(cal, jitters, now)
        /\ call' = [op |-> "finalizeCalibration", state |-> cal, jitters |-> jitters,
                    currentTime |-> now, result |-> finalized']
    /\ UNCHANGED <<now, rec, session, store, frames, cal>>

TickCalibration == Tick /\ UNCHANGED <<call, rec, session, store, frames, cal, finalized>>

NextCalibration ==
    \/ InitializeCalibration
    \/ ProcessCalibrationAttempt
    \/ FinalizeCalibration
    \/ TickCalibration

SpecCalibration == InitIdle /\ [][NextCalibration]_vars

\* C2: every UserRating of the UserRatings finalizeCalibration returns has a
\* rating in [800, 3500] and an rd in [30, 350].
C2_FinalizedRatingsBounded ==
    finalized.exists =>
        /\ InRatingBounds(finalized.global)
        /\ \A category \in DOMAIN finalized.categories :
                InRatingBounds(finalized.categories[category])

\* C13: the calibration session is a two-state machine whose Complete state
\* is terminal: once finalizeCalibration has been called the state is
\* Complete (isComplete = TRUE) and holds the attempts it was finalized with.
C13_CompleteIsTerminal ==
    finalized.exists =>
        /\ cal.isComplete
        /\ Len(cal.attempts) = finalized.global.solveCount

\* C14: finalizeCalibration returns the fresh default ratings for a state
\* without attempts, and otherwise a global rating that is currentRating
\* with solveCount the number of attempts; in every state reached from
\* initializeCalibration that number is currentRating.solveCount.
C14_FinalizedGlobal ==
    /\ cal.exists => Len(cal.attempts) = cal.currentRating.solveCount
    /\ call.op = "finalizeCalibration" =>
        /\ Len(call.state.attempts) = 0 =>
                /\ call.result.global = initializeRating(call.currentTime)
                /\ DOMAIN call.result.categories = {}
        /\ Len(call.state.attempts) > 0 =>
                /\ call.result.global =
                        [call.state.currentRating EXCEPT
                            !.solveCount = Len(call.state.attempts)]
                /\ call.result.global = call.state.currentRating

C14_Witness ==
    /\ call.op = "finalizeCalibration"
    /\ Len(call.state.attempts) = 2
    /\ call.result.global.solveCount = 2
    /\ call.result.global.rating # Fx(DEFAULT_RATING)

\* The attempts of a category, as the set of their positions.
AttemptPositions(attempts, category) ==
    {i \in 1..Len(attempts) : attempts[i].category = category}

\* The attempts at the positions of a set replayed in ascending position.
RECURSIVE ReplayPositions(_, _, _, _)
ReplayPositions(rating, attempts, positions, t) ==
    IF positions = {} THEN rating
    ELSE LET i == CHOOSE k \in positions : \A m \in positions : k <= m
         IN  ReplayPositions(
                updateRating(rating, attempts[i].problemRating,
                             calculatePartialCredit(attempts[i].timeUsed,
                                                    attempts[i].timeLimit,
                                                    attempts[i].completed), t),
                attempts, positions \ {i}, t)

\* C15: the categories of finalizeCalibration's result are the categories
\* other than "Random" of the attempts; one with two or more attempts holds
\* the replay of its attempts alone, in recorded order, from a fresh default
\* rating, with solveCount its number of attempts; one with a single attempt
\* holds the global rating moved by a jitter in [-50, 50] and clamped to
\* [800, 3000], rd = max(200, global rd + 50) and solveCount 1.
C15_FinalizedCategories ==
    (call.op = "finalizeCalibration" /\ Len(call.state.attempts) > 0) =>
        LET attempts == call.state.attempts
            result == call.result
        IN  /\ DOMAIN result.categories =
                    {attempts[i].category : i \in 1..Len(attempts)} \ {"Random"}
            /\ \A category \in DOMAIN result.categories :
                LET positions == AttemptPositions(attempts, category)
                IN  IF Cardinality(positions) >= 2
                    THEN /\ result.categories[category] =
                                ReplayPositions(initializeRating(call.currentTime),
                                                attempts, positions, call.currentTime)
                         /\ result.categories[category].solveCount =
                                Cardinality(positions)
                    ELSE /\ \E jitter \in -50..50 :
                                result.categories[category].rating =
                                    Fx(Max(800, Min(3000,
                                        result.global.rating \div Scale + jitter)))
                         /\ result.categories[category].rd =
                                Max(200, result.global.rd + 50)
                         /\ result.categories[category].solveCount = 1

\* Three attempts: two of Array, replayed, and one of Graph, inherited.
C15_Witness ==
    /\ call.op = "finalizeCalibration"
    /\ Len(call.state.attempts) = 3
    /\ Cardinality(AttemptPositions(call.state.attempts, "Array")) = 2
    /\ call.state.attempts[2].category = "Graph"
    /\ call.state.attempts[1].problemRating # call.state.attempts[3].problemRating
    /\ DOMAIN call.result.categories = {"Array", "Graph"}
    /\ call.result.categories["Array"].solveCount = 2
    /\ call.result.categories["Graph"].solveCount = 1

(***************************************************************************)
(* SpecSelect: selectCalibrationProblems on catalogs drawn from a pool.  A *)
(* Problem has a slug, a rating (0 for none), isPaid, its tags and a       *)
(* popularity.  Array.prototype.sort is stable; shuffleArray may return    *)
(* any permutation.                                                        *)
(***************************************************************************)
CALIBRATION_TARGET_RATINGS == <<1200, 1400, 1600, 1800, 2000, 2200>>

\* The filter without the test of solvedSlugs.
isCandidateSolvedOrNot(p, solvedSlugs) ==
    /\ ~p.isPaid
    /\ p.rating # 0
    /\ p.rating >= 1100 /\ p.rating <= 2300

\* The filter of allProblems to candidates, one problem.
isCandidate(p, solvedSlugs) ==
    /\ p.slug \notin solvedSlugs
    /\ ~p.isPaid
    /\ p.rating # 0
    /\ p.rating >= 1100 /\ p.rating <= 2300

\* array.filter(keep), from index i on.
RECURSIVE filterSeq(_, _, _)
filterSeq(seq, keep(_), i) ==
    IF i > Len(seq) THEN <<>>
    ELSE IF keep(seq[i]) THEN <<seq[i]>> \o filterSeq(seq, keep, i + 1)
    ELSE filterSeq(seq, keep, i + 1)

\* The index of pool[0] after pool.sort((a, b) => b.popularity - a.popularity):
\* the first of the most popular.
topIndex(pool) ==
    CHOOSE i \in 1..Len(pool) :
        \A k \in 1..Len(pool) :
            \/ pool[i].popularity > pool[k].popularity
            \/ pool[i].popularity = pool[k].popularity /\ i <= k

\* seq.sort((a, b) => b.popularity - a.popularity).
RECURSIVE sortByPopularity(_)
sortByPopularity(seq) ==
    IF Len(seq) = 0 THEN <<>>
    ELSE <<seq[topIndex(seq)]>>
         \o sortByPopularity(SubSeq(seq, 1, topIndex(seq) - 1)
                             \o SubSeq(seq, topIndex(seq) + 1, Len(seq)))

isNearby(p, targetRating) == Abs(p.rating - targetRating) <= 100

isPreferred(p, usedCategories) ==
    Len(p.tags) > 0 /\ p.tags[1] \notin usedCategories

\* pool = preferredProblems.length > 0 ? preferredProblems : nearbyProblems
poolOf(nearbyProblems, usedCategories) ==
    IF Len(filterSeq(nearbyProblems, LAMBDA p : isPreferred(p, usedCategories), 1)) > 0
    THEN filterSeq(nearbyProblems, LAMBDA p : isPreferred(p, usedCategories), 1)
    ELSE nearbyProblems

withCategoryOf(usedCategories, chosen) ==
    IF Len(chosen.tags) > 0 THEN usedCategories \cup {chosen.tags[1]} ELSE usedCategories

\* for (const targetRating of CALIBRATION_TARGET_RATINGS) { ... }, from the
\* target at index ti on; the value of selected at the end.
RECURSIVE selectNearTargets(_, _, _, _, _)
selectNearTargets(candidates, ti, selected, usedCategories, count) ==
    IF ti > Len(CALIBRATION_TARGET_RATINGS) \/ Len(selected) >= count THEN selected
    ELSE IF Len(filterSeq(candidates,
                          LAMBDA p : isNearby(p, CALIBRATION_TARGET_RATINGS[ti]), 1)) = 0
    THEN selectNearTargets(candidates, ti + 1, selected, usedCategories, count)
    ELSE selectNearTargets(
            candidates, ti + 1,
            Append(selected, sortByPopularity(poolOf(
                filterSeq(candidates,
                          LAMBDA p : isNearby(p, CALIBRATION_TARGET_RATINGS[ti]), 1),
                usedCategories))[1]),
            withCategoryOf(usedCategories, sortByPopularity(poolOf(
                filterSeq(candidates,
                          LAMBDA p : isNearby(p, CALIBRATION_TARGET_RATINGS[ti]), 1),
                usedCategories))[1]),
            count)

\* The first n elements of a sequence, all of it when it is shorter.
firstOf(seq, n) == SubSeq(seq, 1, Min(Len(seq), Max(n, 0)))

\* The selection left as the target loop made it.
withoutFill(candidates, selected, count) == selected

\* if (selected.length < count) { ... }: the most popular candidates whose
\* slug is not selected yet fill the free slots.
fillRemaining(candidates, selected, count) ==
    IF Len(selected) < count
    THEN selected
         \o firstOf(sortByPopularity(filterSeq(
                        candidates,
                        LAMBDA p : p.slug \notin {selected[i].slug : i \in 1..Len(selected)},
                        1)),
                    count - Len(selected))
    ELSE selected

\* shuffleArray: the permutation is the one the random draws make.
shuffleArray(array, permutation) == [i \in 1..Len(array) |-> array[permutation[i]]]

shufflePermutations(n) == {f \in [1..n -> 1..n] : \A i, k \in 1..n : f[i] = f[k] => i = k}

\* The selection before the shuffle.
selectedProblems(candidates, count) ==
    IF Len(candidates) = 0 THEN <<>>
    ELSE fillRemaining(candidates, selectNearTargets(candidates, 1, <<>>, {}, count), count)

candidatesOf(allProblems, solvedSlugs) ==
    filterSeq(allProblems, LAMBDA p : isCandidate(p, solvedSlugs), 1)

ProblemPool ==
    <<[slug |-> "two-sum", rating |-> 1300, isPaid |-> FALSE, tags |-> <<"Array">>,
       popularity |-> 5],
      [slug |-> "3sum", rating |-> 1500, isPaid |-> FALSE, tags |-> <<"Array">>,
       popularity |-> 9],
      [slug |-> "clone-graph", rating |-> 1250, isPaid |-> FALSE, tags |-> <<"Graph">>,
       popularity |-> 3],
      [slug |-> "alien-dictionary", rating |-> 1600, isPaid |-> TRUE,
       tags |-> <<"Graph">>, popularity |-> 8],
      [slug |-> "invert-binary-tree", rating |-> 0, isPaid |-> FALSE,
       tags |-> <<"Tree">>, popularity |-> 7],
      [slug |-> "binary-tree-cameras", rating |-> 2400, isPaid |-> FALSE,
       tags |-> <<"Tree">>, popularity |-> 6],
      [slug |-> "nim-game", rating |-> 2000, isPaid |-> FALSE, tags |-> <<>>,
       popularity |-> 5]>>

\* The catalogs: the problems of the pool at a set of positions, in pool order.
RECURSIVE catalogAt(_, _)
catalogAt(positions, i) ==
    IF i > Len(ProblemPool) THEN <<>>
    ELSE IF i \in positions THEN <<ProblemPool[i]>> \o catalogAt(positions, i + 1)
    ELSE catalogAt(positions, i + 1)

SolvedSlugSets == {{}, {"two-sum"}, {"3sum", "clone-graph"}}

\* The largest count asked of selectCalibrationProblems.
MaxCount == 3

CallSelectCalibrationProblems ==
    /\ call = NoCall
    /\ \E positions \in SUBSET (1..Len(ProblemPool)), count \in 0..MaxCount,
          solvedSlugs \in SolvedSlugSets :
        \E permutation \in
                shufflePermutations(Len(selectedProblems(
                    candidatesOf(catalogAt(positions, 1), solvedSlugs), count))) :
            call' = [op |-> "selectCalibrationProblems",
                     allProblems |-> catalogAt(positions, 1), count |-> count,
                     solvedSlugs |-> solvedSlugs,
                     result |-> shuffleArray(
                        selectedProblems(
                            candidatesOf(catalogAt(positions, 1), solvedSlugs), count),
                        permutation)]
    /\ UNCHANGED <<now, rec, session, store, frames, cal, finalized>>

NextSelect == CallSelectCalibrationProblems

SpecSelect == InitIdle /\ [][NextSelect]_vars

\* C16: no problem selectCalibrationProblems returns has its slug in
\* solvedSlugs, is paid, has no rating, or has a rating outside [1100, 2300].
C16_SelectedAreEligible ==
    call.op = "selectCalibrationProblems" =>
        \A i \in 1..Len(call.result) :
            /\ call.result[i].slug \notin call.solvedSlugs
            /\ ~call.result[i].isPaid
            /\ call.result[i].rating # 0
            /\ call.result[i].rating >= 1100 /\ call.result[i].rating <= 2300

\* A catalog holding a solved, a paid, an unrated and an out-of-range
\* problem, and a selection made from the rest.
C16_Witness ==
    /\ call.op = "selectCalibrationProblems"
    /\ Len(call.allProblems) = Len(ProblemPool)
    /\ call.solvedSlugs = {"two-sum"}
    /\ call.count = 3 /\ Len(call.result) = 3

\* C17: selectCalibrationProblems returns at most count problems, and fewer
\* than count only when every eligible problem of the catalog is in the result.
C17_AtMostCount ==
    call.op = "selectCalibrationProblems" =>
        /\ Len(call.result) <= call.count
        /\ Len(call.result) < call.count =>
                \A i \in 1..Len(call.allProblems) :
                    (/\ call.allProblems[i].slug \notin call.solvedSlugs
                     /\ ~call.allProblems[i].isPaid
                     /\ call.allProblems[i].rating >= 1100
                     /\ call.allProblems[i].rating <= 2300)
                        => \E k \in 1..Len(call.result) :
                                call.result[k] = call.allProblems[i]

\* Two eligible problems of five for a count of three: both are returned.
C17_Witness ==
    /\ call.op = "selectCalibrationProblems"
    /\ call.count = 3 /\ Len(call.result) = 2
    /\ Len(call.allProblems) = 5
    /\ call.result[1].slug # call.result[2].slug

(***************************************************************************)
(* historicalRatingEstimation: ratings from the solve history.  A          *)
(* historical Solve has a slug, a status and a timestamp; problems is a    *)
(* function from the slugs of the known problems to [rating, tags], the    *)
(* rating in whole points (0 for a missing one).                           *)
(***************************************************************************)
RECURSIVE sumOf(_, _)
sumOf(values, i) ==
    IF i > Len(values) THEN 0 ELSE values[i] + sumOf(values, i + 1)

\* mean of a sequence of Fx values.
mean(values) ==
    IF Len(values) = 0 THEN 0 ELSE FxDiv(sumOf(values, 1), Fx(Len(values)))

squaredDiffs(values, avg) ==
    [i \in 1..Len(values) |-> FxMul(values[i] - avg, values[i] - avg)]

standardDeviation(values) ==
    IF Len(values) <= 1 THEN 0
    ELSE MathSqrt(mean(squaredDiffs(values, mean(values))))

\* problems.get(solve.slug)?.rating, 0 for an unknown problem.
ratingOfSolve(solve, problems) ==
    IF solve.slug \in DOMAIN problems THEN problems[solve.slug].rating ELSE 0

\* An accepted solve whose problem is known and has a positive rating.
isRatedAccepted(solve, problems) ==
    /\ solve.status = "Accepted"
    /\ ratingOfSolve(solve, problems) > 0

getAcceptedSolveRatings(solves, problems) ==
    LET kept == filterSeq(solves, LAMBDA s : isRatedAccepted(s, problems), 1)
    IN  [i \in 1..Len(kept) |-> Fx(ratingOfSolve(kept[i], problems))]

\* The tags of the problem of a solve.
tagsOfSolve(solve, problems) ==
    {problems[solve.slug].tags[k] : k \in 1..Len(problems[solve.slug].tags)}

\* The solves groupSolvesByCategory files under one tag.
isGroupedUnder(solve, problems, tag) ==
    /\ isRatedAccepted(solve, problems)
    /\ tag \in tagsOfSolve(solve, problems)

groupSolvesByCategoryWithRandom(solves, problems) ==
    [tag \in UNION {tagsOfSolve(solves[i], problems) :
                        i \in {j \in 1..Len(solves) :
                                    isRatedAccepted(solves[j], problems)}} |->
        filterSeq(solves, LAMBDA s : isGroupedUnder(s, problems, tag), 1)]

groupSolvesByCategory(solves, problems) ==
    [tag \in UNION {tagsOfSolve(solves[i], problems) :
                        i \in {j \in 1..Len(solves) :
                                    isRatedAccepted(solves[j], problems)}}
                \ {"Random"} |->
        filterSeq(solves, LAMBDA s : isGroupedUnder(s, problems, tag), 1)]

\* [...solves].sort((a, b) => a.timestamp - b.timestamp): a stable sort of
\* the first i solves.
RECURSIVE insertByTimestamp(_, _)
insertByTimestamp(sorted, solve) ==
    IF Len(sorted) = 0 THEN <<solve>>
    ELSE IF sorted[Len(sorted)].timestamp <= solve.timestamp THEN Append(sorted, solve)
    ELSE Append(insertByTimestamp(SubSeq(sorted, 1, Len(sorted) - 1), solve),
                sorted[Len(sorted)])

inInputOrder(solves, i) == SubSeq(solves, 1, i)

RECURSIVE sortByTimestamp(_, _)
sortByTimestamp(solves, i) ==
    IF i = 0 THEN <<>>
    ELSE insertByTimestamp(sortByTimestamp(solves, i - 1), solves[i])

\* The loop of processHistoricalSolves from solve i on.
RECURSIVE replayTies(_, _, _, _, _)
replayTies(rating, sortedSolves, problems, i, currentTime) ==
    IF i > Len(sortedSolves) THEN rating
    ELSE replayTies(
            IF isRatedAccepted(sortedSolves[i], problems)
            THEN updateRating(rating, ratingOfSolve(sortedSolves[i], problems),
                              Scale \div 2, currentTime)
            ELSE rating,
            sortedSolves, problems, i + 1, currentTime)

processHistoricalSolvesFromDefault(initialRating, solves, problems, currentTime) ==
    replayTies(initializeRating(currentTime),
               sortByTimestamp(solves, Len(solves)), problems, 1, currentTime)

\* initialRating is an Fx value.
processHistoricalSolves(initialRating, solves, problems, currentTime) ==
    replayTies([initializeRating(currentTime) EXCEPT !.rating = initialRating],
               sortByTimestamp(solves, Len(solves)), problems, 1, currentTime)

\* mean(values) - 0.5 * standardDeviation(values).
conservativeEstimate(values) ==
    mean(values) - FxMul(Scale \div 2, standardDeviation(values))

initialEstimateOf(allRatings) ==
    IF Len(allRatings) > 0 THEN conservativeEstimate(allRatings) ELSE Fx(DEFAULT_RATING)

\* The rating of one category of the history; jitter is the Fx value of
\* (Math.random() - 0.5) * 100.
categoryFromHistory(categorySolves, categoryRatingValues, problems, initialEstimate, jitter, currentTime) ==
    IF Len(categoryRatingValues) >= 3
    THEN processHistoricalSolves(conservativeEstimate(categoryRatingValues),
                                 categorySolves, problems, currentTime)
    ELSE processHistoricalSolves(Max(Fx(800), Min(Fx(3000), initialEstimate + jitter)),
                                 categorySolves, problems, currentTime)

\* The UserRatings initializeRatingsFromHistory hands to saveRatings.
ratingsFromHistory(solves, problems, categoryGroups, initialEstimate, jitters, currentTime) ==
    [exists |-> TRUE,
     global |-> processHistoricalSolves(
                    initialEstimate,
                    filterSeq(solves, LAMBDA s : s.status = "Accepted", 1),
                    problems, currentTime),
     categories |->
        [category \in DOMAIN categoryGroups |->
            categoryFromHistory(
                categoryGroups[category],
                getAcceptedSolveRatings(categoryGroups[category], problems),
                problems, initialEstimate,
                IF category \in DOMAIN jitters THEN jitters[category] ELSE 0,
                currentTime)]]

initializeRatingsFromHistory(solves, problems, jitters, currentTime) ==
    ratingsFromHistory(solves, problems, groupSolvesByCategory(solves, problems),
                       initialEstimateOf(getAcceptedSolveRatings(solves, problems)),
                       jitters, currentTime)

(***************************************************************************)
(* SpecHistory: one call of initializeRatingsFromHistory on a history of   *)
(* at most MaxHistory solves, in every order; the call computes the        *)
(* ratings, awaits saveRatings, and resolves or rejects with it.           *)
(***************************************************************************)
HistoryProblems ==
    [slug \in {"two-sum", "lru-cache", "course-schedule", "unrated"} |->
        CASE slug = "two-sum" -> [rating |-> 1500, tags |-> <<"Array">>]
          [] slug = "lru-cache" -> [rating |-> 1700, tags |-> <<"Array", "Random">>]
          [] slug = "course-schedule" -> [rating |-> 1900, tags |-> <<"Array", "Graph">>]
          [] OTHER -> [rating |-> 0, tags |-> <<"Graph">>]]

HistorySolves ==
    {[slug |-> "two-sum", status |-> "Accepted", timestamp |-> 30],
     [slug |-> "course-schedule", status |-> "Accepted", timestamp |-> 10],
     [slug |-> "lru-cache", status |-> "Accepted", timestamp |-> 20],
     [slug |-> "two-sum", status |-> "Wrong Answer", timestamp |-> 5],
     [slug |-> "no-such-problem", status |-> "Accepted", timestamp |-> 15],
     [slug |-> "unrated", status |-> "Accepted", timestamp |-> 25]}

\* The longest history.
MaxHistory == 3

\* Histories of distinct solves, in every order.
Histories ==
    {solves \in UNION {[1..n -> HistorySolves] : n \in 0..MaxHistory} :
        \A i, j \in 1..Len(solves) : i # j => solves[i] # solves[j]}

\* (Math.random() - 0.5) * 100 lies in [-50, 50).
HistoryJitters == {-Fx(50), 0, Fx(50) - 1}

\* The categories for which initializeRatingsFromHistory draws a jitter.
jitterDrawn(solves, problems) ==
    {category \in DOMAIN groupSolvesByCategory(solves, problems) :
        Len(groupSolvesByCategory(solves, problems)[category]) < 3}

\* initializeRatingsFromHistory up to its await of saveRatings.
BeginInitializeRatingsFromHistory ==
    /\ call = NoCall
    /\ \E solves \in Histories :
        \E jitters \in [jitterDrawn(solves, HistoryProblems) -> HistoryJitters] :
            call' = [op |-> "initializeRatingsFromHistory", solves |-> solves,
                     jitters |-> jitters, currentTime |-> now,
                     ratings |-> initializeRatingsFromHistory(
                                    solves, HistoryProblems, jitters, now),
                     result |-> "pending"]
    /\ UNCHANGED <<now, rec, session, store, frames, cal, finalized>>

\* saveRatings resolves: the ratings are stored.
InitializeRatingsFromHistoryOk ==
    /\ call.op = "initializeRatingsFromHistory"
    /\ call.result = "pending"
    /\ call' = [call EXCEPT !.result = "resolved"]
    /\ store' = call.ratings
    /\ UNCHANGED <<now, rec, session, frames, cal, finalized>>

\* saveRatings rejects: the error reaches the caller and nothing is stored.
InitializeRatingsFromHistoryFail ==
    /\ call.op = "initializeRatingsFromHistory"
    /\ call.result = "pending"
    /\ call' = [call EXCEPT !.result = "rejected"]
    /\ UNCHANGED <<now, rec, session, store, frames, cal, finalized>>

TickHistory == Tick /\ UNCHANGED <<call, rec, session, store, frames, cal, finalized>>

NextHistory ==
    \/ BeginInitializeRatingsFromHistory
    \/ InitializeRatingsFromHistoryOk
    \/ InitializeRatingsFromHistoryFail
    \/ TickHistory

SpecHistory == InitIdle /\ [][NextHistory]_vars

\* The solves of the history that count: accepted, against a known problem
\* with a positive rating.
CountedSolves(solves) ==
    {solves[i] : i \in {j \in 1..Len(solves) :
        /\ solves[j].status = "Accepted"
        /\ solves[j].slug \in DOMAIN HistoryProblems
        /\ HistoryProblems[solves[j].slug].rating > 0}}

\* The solves of a set, earliest first.
RECURSIVE EarliestFirst(_)
EarliestFirst(S) ==
    IF S = {} THEN <<>>
    ELSE LET first == CHOOSE s \in S : \A t \in S : s.timestamp <= t.timestamp
         IN  <<first>> \o EarliestFirst(S \ {first})

\* One updateRating with outcome 0.5 for each solve of a sequence, in turn.
RECURSIVE TieForEach(_, _, _, _)
TieForEach(rating, solves, i, currentTime) ==
    IF i > Len(solves) THEN rating
    ELSE TieForEach(updateRating(rating, HistoryProblems[solves[i].slug].rating,
                                 Scale \div 2, currentTime),
                    solves, i + 1, currentTime)

\* C18: the global rating of initializeRatingsFromHistory is the initial
\* estimate after one updateRating with outcome 0.5 for each accepted solve
\* against a known, rated problem, earliest timestamp first whatever the order
\* of the input, and its solveCount is the number of those solves; the other
\* solves contribute nothing.
C18_GlobalIsTieReplay ==
    call.op = "initializeRatingsFromHistory" =>
        /\ call.ratings.global =
                TieForEach([initializeRating(call.currentTime) EXCEPT
                                !.rating = initialEstimateOf(
                                    getAcceptedSolveRatings(call.solves, HistoryProblems))],
                           EarliestFirst(CountedSolves(call.solves)), 1,
                           call.currentTime)
        /\ call.ratings.global.solveCount = Cardinality(CountedSolves(call.solves))

\* A history given latest first, with a wrong answer between two accepted
\* solves of different ratings.
C18_Witness ==
    /\ call.op = "initializeRatingsFromHistory"
    /\ Len(call.solves) = 3
    /\ call.solves[1] = [slug |-> "two-sum", status |-> "Accepted", timestamp |-> 30]
    /\ call.solves[2].status = "Wrong Answer"
    /\ call.solves[3] = [slug |-> "course-schedule", status |-> "Accepted",
                         timestamp |-> 10]
    /\ call.ratings.global.solveCount = 2
    /\ store = call.ratings

\* The rating of the problem of the one counted solve of a history.
OnlyCountedRating(solves) ==
    HistoryProblems[(CHOOSE s \in CountedSolves(solves) : TRUE).slug].rating

\* C19: with exactly one accepted solve against a rated problem and nothing
\* stored, initializeRatingsFromHistory gives a global rating with solveCount 1
\* whose rating differs from the default 1500, whatever the problem's rating.
C19_OneSolveLeavesDefault ==
    (/\ call.op = "initializeRatingsFromHistory"
     /\ Cardinality(CountedSolves(call.solves)) = 1)
        => /\ call.ratings.global.solveCount = 1
           /\ call.ratings.global.rating # Fx(DEFAULT_RATING)

\* C19 as the code has it: the global rating has solveCount 1 and its rating
\* is the problem's rating, kept within [800, 3500]; it differs from the
\* default 1500 exactly when the problem's rating is not 1500.
C19_OneSolveTakesProblemRating ==
    (/\ call.op = "initializeRatingsFromHistory"
     /\ Cardinality(CountedSolves(call.solves)) = 1)
        => /\ call.ratings.global.solveCount = 1
           /\ call.ratings.global.rating =
                Fx(Max(800, Min(3500, OnlyCountedRating(call.solves))))
           /\ (call.ratings.global.rating # Fx(DEFAULT_RATING))
                <=> (OnlyCountedRating(call.solves) # DEFAULT_RATING)

\* One accepted solve of a problem rated 1900, saved as a global rating of
\* 1900 with one solve.
C19_Witness ==
    /\ call.op = "initializeRatingsFromHistory"
    /\ call.solves = <<[slug |-> "course-schedule", status |-> "Accepted",
                        timestamp |-> 10]>>
    /\ call.result = "resolved"
    /\ store.exists
    /\ store.global.solveCount = 1
    /\ store.global.rating = Fx(1900)

\* The categories of a history with one or two counted solves.
SparseCategories(solves) ==
    {category \in {"Array", "Graph"} :
        Cardinality({s \in CountedSolves(solves) :
            \E k \in 1..Len(HistoryProblems[s.slug].tags) :
                HistoryProblems[s.slug].tags[k] = category}) \in {1, 2}}

\* C20: a category with one or two rated accepted solves is not replayed by
\* initializeRatingsFromHistory: its rating is the global rating after the
\* replay plus a jitter within [-50, 50], kept within [800, 3000], and its
\* deviation is max(200, global deviation + 50).
C20_SparseCategoryNotReplayed ==
    call.op = "initializeRatingsFromHistory" =>
        \A category \in SparseCategories(call.solves) :
            /\ category \in DOMAIN call.ratings.categories
            /\ call.ratings.categories[category].rd =
                    Max(200, call.ratings.global.rd + 50)
            /\ call.ratings.categories[category].rating >=
                    Max(Fx(800), Min(Fx(3000), call.ratings.global.rating - Fx(50)))
            /\ call.ratings.categories[category].rating <=
                    Max(Fx(800), Min(Fx(3000), call.ratings.global.rating + Fx(50)))

\* C21: the categories of initializeRatingsFromHistory have a key for a tag
\* exactly when the tag is not "Random" and an accepted solve of a problem
\* with a positive rating carries it; a solve counts for each of its tags.
C21_CategoryKeys ==
    call.op = "initializeRatingsFromHistory" =>
        DOMAIN call.ratings.categories =
            {tag \in {"Array", "Graph", "Random"} :
                /\ tag # "Random"
                /\ \E s \in CountedSolves(call.solves) :
                    \E k \in 1..Len(HistoryProblems[s.slug].tags) :
                        HistoryProblems[s.slug].tags[k] = tag}

\* A history of a problem tagged Array and Random and an unrated problem
\* tagged Graph: Array is the only key.
C21_Witness ==
    /\ call.op = "initializeRatingsFromHistory"
    /\ call.result = "resolved"
    /\ \E i, j \in 1..Len(call.solves) :
        /\ call.solves[i].slug = "lru-cache"
        /\ call.solves[j].slug = "unrated"
    /\ DOMAIN store.categories = {"Array"}
    /\ store.categories["Array"].solveCount = 1

(***************************************************************************)
(* SpecStorage: the storage layer over its collaborator (the idb           *)
(* database).  Each function of the layer issues one get, put or delete    *)
(* and awaits it outside any try; `call` is the frame of the function:     *)
(* its pc, the number of requests it has issued, the error the             *)
(* collaborator failed with and the value or error it settles with.        *)
(***************************************************************************)
StorageFunctions ==
    {"getRatings", "saveRatings", "clearCalibrationState",
     "startSolveSession", "getActiveSolveSession", "endSolveSession"}

\* The request the function awaits.
collaboratorRequest(op) ==
    CASE op \in {"getRatings", "getActiveSolveSession"} -> "get"
      [] op \in {"saveRatings", "startSolveSession"} -> "put"
      [] OTHER -> "delete"

CollaboratorErrors == {"Database connection failed", "Failed to delete"}

\* The most storage calls of one behaviour.
MaxStorageCalls == 2

storageCallsMade == IF call = NoCall THEN 0 ELSE call.seq

\* The arguments a function is called with, besides the username.
storageArguments(op, currentTime) ==
    CASE op = "saveRatings" ->
            {defaultRatings(currentTime),
             [defaultRatings(currentTime) EXCEPT !.global.solveCount = 1]}
      [] op = "startSolveSession" -> Problems
      [] OTHER -> {NoCall}

\* The function up to its await of the collaborator.
BeginStorageCall ==
    /\ IF call = NoCall THEN TRUE ELSE call.pc # "awaiting"
    /\ storageCallsMade < MaxStorageCalls
    /\ \E op \in StorageFunctions :
        \E arg \in storageArguments(op, now) :
            call' = [op |-> op, seq |-> storageCallsMade + 1, pc |-> "awaiting",
                     request |-> collaboratorRequest(op), requests |-> 1, arg |-> arg,
                     failure |-> "none", error |-> "none", value |-> NoCall]
    /\ UNCHANGED <<now, rec, session, store, frames, cal, finalized>>

\* `await idb.get / put / delete` rejecting inside a function that has no
\* try around it: the function rejects with the same error.
awaitRejectedRetried(frame, error) ==
    [frame EXCEPT !.requests = @ + 1]

awaitRejected(frame, error) ==
    [frame EXCEPT !.pc = "rejected", !.error = error]

\* The value the function resolves with: `ratings ?? null`, `session ??
\* null`, the new session, or nothing.
storageValue(frame, currentTime) ==
    CASE frame.op = "getRatings" -> store
      [] frame.op = "getActiveSolveSession" -> session
      [] frame.op = "startSolveSession" ->
            NewSolveSession(Username, frame.arg, currentTime)
      [] OTHER -> NoCall

CollaboratorResolves ==
    /\ call # NoCall
    /\ call.pc = "awaiting"
    /\ call' = [call EXCEPT !.pc = "resolved", !.value = storageValue(call, now)]
    /\ store' = IF call.op = "saveRatings" THEN call.arg ELSE store
    /\ session' = CASE call.op = "startSolveSession" -> storageValue(call, now)
                    [] call.op = "endSolveSession" -> NoSession
                    [] OTHER -> session
    /\ cal' = IF call.op = "clearCalibrationState" THEN NoCalibration ELSE cal
    /\ UNCHANGED <<now, rec, frames, finalized>>

CollaboratorRejects ==
    /\ call # NoCall
    /\ call.pc = "awaiting"
    /\ \E error \in CollaboratorErrors :
        call' = awaitRejected([call EXCEPT !.failure = error], error)
    /\ UNCHANGED <<now, rec, session, store, frames, cal, finalized>>

TickStorage == Tick /\ UNCHANGED <<call, rec, session, store, frames, cal, finalized>>

InitStorage ==
    /\ now = 1
    /\ call = NoCall
    /\ rec = initializeRating(1)
    /\ session = NoSession
    /\ store \in {NoRatings, defaultRatings(1)}
    /\ frames = NoFrames
    /\ cal \in {NoCalibration, initializeCalibration(Username, 1)}
    /\ finalized = NoRatings

NextStorage ==
    \/ BeginStorageCall
    \/ CollaboratorResolves
    \/ CollaboratorRejects
    \/ TickStorage

SpecStorage == InitStorage /\ [][NextStorage]_vars

\* C22: when the get, put or delete of getRatings, saveRatings,
\* clearCalibrationState, startSolveSession, getActiveSolveSession or
\* endSolveSession fails, the function rejects with the collaborator's error,
\* having issued that one request and no other.
C22_StorageErrorPropagates ==
    (call # NoCall /\ call.failure # "none") =>
        /\ call.op \in StorageFunctions
        /\ call.pc = "rejected"
        /\ call.error = call.failure
        /\ call.requests = 1

\* The delete of clearCalibrationState fails while a calibration state is
\* stored, after an earlier call.
C22_Witness ==
    /\ call # NoCall
    /\ call.op = "clearCalibrationState"
    /\ call.seq = 2
    /\ call.pc = "rejected"
    /\ call.error = "Failed to delete"
    /\ cal.exists

(***************************************************************************)
(* SpecTracker: the SolveSessionTracker component over one active solve    *)
(* session.  frames["tracker"] is the component: its React state (session, *)
(* isCompleting), the handler that is running and the await it is at, the  *)
(* solve records db.saveSolve holds, the rating updates applied and the    *)
(* events dispatched.  A click reads the state of the latest render.       *)
(***************************************************************************)
TrackerProblems ==
    {[slug |-> "two-sum", hasRating |-> TRUE, rating |-> 1500, tags |-> <<"Array">>],
     [slug |-> "mystery", hasRating |-> FALSE, rating |-> 0, tags |-> <<>>]}

\* elapsedSeconds at the click.
TrackerElapsed == {0, 1800}

\* The most clicks a handler acts on.
MaxHandled == 2

tracker == frames["tracker"]

MountedTracker(activeSession) ==
    [pc |-> "idle", session |-> activeSession, isCompleting |-> FALSE,
     handler |-> "none", outcome |-> "none", solve |-> NoCall, saved |-> {},
     updates |-> 0, events |-> <<>>, handled |-> 0, ignored |-> FALSE,
     beforeStore |-> NoRatings, beforeSaved |-> {}]

InitTracker ==
    /\ now = 1
    /\ call = NoCall
    /\ rec = initializeRating(1)
    /\ session \in {NewSolveSession(Username, problem, 1) : problem \in TrackerProblems}
    /\ store \in {NoRatings, defaultRatings(1)}
    /\ frames = [c \in {"tracker"} |-> MountedTracker(session)]
    /\ cal = NoCalibration
    /\ finalized = NoRatings

\* The solve record of handleComplete.
solveOfSession(activeSession, completed, elapsedSeconds) ==
    [slug |-> activeSession.problem.slug, timestamp |-> activeSession.startedAt,
     status |-> IF completed THEN "Accepted" ELSE "failed",
     rating |-> activeSession.problem.rating, tags |-> activeSession.problem.tags,
     timeUsed |-> elapsedSeconds]

\* if (!session || isCompleting) return;
clickIsHandled(frame) == frame.session.exists /\ ~frame.isCompleting

\* handleComplete(completed) up to await db.getUsername().
ClickComplete ==
    /\ clickIsHandled(tracker)
    /\ tracker.handled < MaxHandled
    /\ \E completed \in BOOLEAN, elapsedSeconds \in TrackerElapsed :
        frames' = [frames EXCEPT !["tracker"] =
            [tracker EXCEPT !.pc = "getUsername", !.isCompleting = TRUE,
                            !.handler = "complete", !.outcome = "pending",
                            !.solve = solveOfSession(tracker.session, completed,
                                                     elapsedSeconds),
                            !.handled = @ + 1, !.beforeStore = store,
                            !.beforeSaved = tracker.saved]]
    /\ UNCHANGED <<now, call, rec, session, store, cal, finalized>>

\* handleAbort up to await db.getUsername().
ClickAbort ==
    /\ clickIsHandled(tracker)
    /\ tracker.handled < MaxHandled
    /\ frames' = [frames EXCEPT !["tracker"] =
            [tracker EXCEPT !.pc = "getUsername", !.isCompleting = TRUE,
                            !.handler = "abort", !.outcome = "pending",
                            !.solve = NoCall, !.handled = @ + 1,
                            !.beforeStore = store,
                            !.beforeSaved = tracker.saved]]
    /\ UNCHANGED <<now, call, rec, session, store, cal, finalized>>

\* A click while a handler is running or after the session is gone: the
\* handler returns at its first line.
ClickIgnored ==
    /\ ~clickIsHandled(tracker)
    /\ frames' = [frames EXCEPT !["tracker"] = [tracker EXCEPT !.ignored = TRUE]]
    /\ UNCHANGED <<now, call, rec, session, store, cal, finalized>>

\* catch { console.error } finally { setIsCompleting(false) }
handlerFailed(frame) ==
    [frame EXCEPT !.pc = "idle", !.isCompleting = FALSE, !.outcome = "failed"]

\* The await that follows db.getUsername() in either handler.
afterUsernameAlwaysSaves(frame) == [frame EXCEPT !.pc = "saveSolve"]

afterUsername(frame) ==
    IF frame.handler = "complete" THEN [frame EXCEPT !.pc = "saveSolve"]
    ELSE [frame EXCEPT !.pc = "endSolveSession"]

GetUsernameOk ==
    /\ tracker.pc = "getUsername"
    /\ frames' = [frames EXCEPT !["tracker"] = afterUsername(tracker)]
    /\ UNCHANGED <<now, call, rec, session, store, cal, finalized>>

\* The solve records after db.saveSolve(solve): the record is put under its
\* slug and timestamp, in place of a record that has them.
withSavedSolve(saved, solve) ==
    {s \in saved : s.slug # solve.slug \/ s.timestamp # solve.timestamp} \cup {solve}

\* await db.saveSolve(solve) resolves.
SaveSolveOk ==
    /\ tracker.pc = "saveSolve"
    /\ frames' = [frames EXCEPT !["tracker"] =
            [tracker EXCEPT !.pc = "updateRatingsFromSolve",
                            !.saved = withSavedSolve(@, tracker.solve)]]
    /\ UNCHANGED <<now, call, rec, session, store, cal, finalized>>

\* The ratings updateRatingsFromSolve saves for a rated solve.
ratingsAfterSolve(stored, solve, currentTime) ==
    applySolve(IF stored.exists THEN stored ELSE defaultRatings(currentTime),
               solve, currentTime)

\* await updateRatingsFromSolve(username, solve) resolves: an unrated solve
\* is skipped, a rated one is applied and saved.
TrackerUpdateRatingsOk ==
    /\ tracker.pc = "updateRatingsFromSolve"
    /\ store' = IF IsRated(tracker.solve)
                THEN ratingsAfterSolve(store, tracker.solve, now)
                ELSE store
    /\ frames' = [frames EXCEPT !["tracker"] =
            [tracker EXCEPT !.pc = "endSolveSession",
                            !.updates = IF IsRated(tracker.solve) THEN @ + 1 ELSE @]]
    /\ UNCHANGED <<now, call, rec, session, cal, finalized>>

\* await updateRatingsFromSolve rejects: a storage call of it failed; the
\* default record of initializeRatings may have been saved before that.
TrackerUpdateRatingsFail ==
    /\ tracker.pc = "updateRatingsFromSolve"
    /\ IsRated(tracker.solve)
    /\ store' \in {store} \cup (IF store.exists THEN {} ELSE {defaultRatings(now)})
    /\ frames' = [frames EXCEPT !["tracker"] = handlerFailed(tracker)]
    /\ UNCHANGED <<now, call, rec, session, cal, finalized>>

\* await endSolveSession(username) resolves; SOLVE_SESSION_ENDED_EVENT is
\* dispatched and handleSessionEnded clears the session of the component;
\* handleComplete also dispatches solves-updated.
TrackerEndSessionOk ==
    /\ tracker.pc = "endSolveSession"
    /\ session' = NoSession
    /\ frames' = [frames EXCEPT !["tracker"] =
            [tracker EXCEPT !.pc = "idle", !.isCompleting = FALSE,
                            !.outcome = "ended", !.session = NoSession,
                            !.events = @ \o (IF tracker.handler = "complete"
                                             THEN <<"solve-session-ended",
                                                    "solves-updated">>
                                             ELSE <<"solve-session-ended">>)]]
    /\ UNCHANGED <<now, call, rec, store, cal, finalized>>

\* db.getUsername, db.saveSolve or endSolveSession rejects.
TrackerAwaitFail ==
    /\ tracker.pc \in {"getUsername", "saveSolve", "endSolveSession"}
    /\ frames' = [frames EXCEPT !["tracker"] = handlerFailed(tracker)]
    /\ UNCHANGED <<now, call, rec, session, store, cal, finalized>>

TickTracker == Tick /\ UNCHANGED <<call, rec, session, store, frames, cal, finalized>>

NextTracker ==
    \/ ClickComplete
    \/ ClickAbort
    \/ ClickIgnored
    \/ GetUsernameOk
    \/ SaveSolveOk
    \/ TrackerUpdateRatingsOk
    \/ TrackerUpdateRatingsFail
    \/ TrackerEndSessionOk
    \/ TrackerAwaitFail
    \/ TickTracker

SpecTracker == InitTracker /\ [][NextTracker]_vars

\* C23: handleAbort saves no solve record and leaves the stored ratings as
\* they were, and when its endSolveSession resolves the stored session is
\* deleted and the session-ended event is the one event dispatched.
C23_AbortOnlyEndsSession ==
    tracker.handler = "abort" =>
        /\ tracker.saved = tracker.beforeSaved
        /\ store = tracker.beforeStore
        /\ tracker.outcome = "ended" =>
            /\ ~session.exists
            /\ ~tracker.session.exists
            /\ tracker.events = <<"solve-session-ended">>

\* An abort that ended the session of a rated problem, after a Completed
\* click whose endSolveSession failed.
C23_Witness ==
    /\ tracker.handler = "abort"
    /\ tracker.outcome = "ended"
    /\ tracker.handled = 2
    /\ tracker.updates = 1
    /\ ~session.exists
    /\ store = tracker.beforeStore
    /\ store.global.solveCount = 1

\* C25: whatever Completed, Did Not Complete and Abort clicks one active
\* session receives, at most one solve record is saved and at most one rating
\* update is applied for it.
C25_AtMostOneSolveAndUpdate ==
    /\ Cardinality(tracker.saved) <= 1
    /\ tracker.updates <= 1

\* C26: the problems selectCalibrationProblems returns are pairwise
\* distinct: no slug appears twice in the result.
C26_SelectedAreDistinct ==
    call.op = "selectCalibrationProblems" =>
        \A i, k \in 1..Len(call.result) :
            call.result[i].slug = call.result[k].slug => i = k

(***************************************************************************)
(* SpecRace: two callers of updateRatingsFromSolve for the same user,      *)
(* their storage awaits interleaved in every order.                        *)
(***************************************************************************)
InitRace ==
    /\ now = 1
    /\ call = NoCall
    /\ rec = initializeRating(1)
    /\ session = NoSession
    /\ store \in InitialStores
    /\ frames = [c \in {"first", "second"} |-> IdleFrame]
    /\ cal = NoCalibration
    /\ finalized = NoRatings

NextRace ==
    \/ \E c \in DOMAIN frames : BeginUpdateRatingsFromSolve(c)
    \/ \E c \in DOMAIN frames : GetRatingsOk(c)
    \/ \E c \in DOMAIN frames : GetRatingsFail(c)
    \/ \E c \in DOMAIN frames : InitializeRatingsOk(c)
    \/ \E c \in DOMAIN frames : InitializeRatingsFail(c)
    \/ \E c \in DOMAIN frames : SaveRatingsOk(c)
    \/ \E c \in DOMAIN frames : SaveRatingsFail(c)
    \/ TickSync

SpecRace == InitRace /\ [][NextRace]_vars

\* Both callers have resolved a call with a rated solve.
BothResolved ==
    \A c \in DOMAIN frames :
        /\ frames[c].pc = "done" /\ frames[c].result = "resolved"
        /\ RatedSolves(frames[c].solves) # {}

\* The global solveCount stored before either call began: the caller that
\* began first recorded it.
PriorCount ==
    Min(GlobalCount(frames["first"].before), GlobalCount(frames["second"].before))

\* C24: after two updateRatingsFromSolve calls with rated solves for the same
\* user have both resolved, however their awaits interleave, the stored
\* global solveCount is the one before them plus 2.
C24_NoLostUpdate ==
    BothResolved => GlobalCount(store) = PriorCount + 2

(***************************************************************************)
(* SpecAttempts: processCalibrationAttempt on objects.  The heap holds the *)
(* CalibrationState objects and the arrays their attempts fields refer to, *)
(* so a write into the object or the array a call was given is visible.    *)
(* A call may be made on any state made so far.                            *)
(***************************************************************************)

\* The most CalibrationState objects made.
MaxStates == 4

\* The attempts submitted: two-sum solved in time and given up,
\* course-schedule solved in time.
SubmittedAttempts(currentTime) ==
    {createTimedAttempt(problem, o[1], o[2], currentTime) :
        problem \in {p \in CalibrationProblems : p.slug \in {"two-sum", "course-schedule"}},
        o \in {q \in AttemptOutcomes : q[2]}}
    \cup {createTimedAttempt(problem, 600, FALSE, currentTime) :
            problem \in {p \in CalibrationProblems : p.slug = "two-sum"}}

\* The CalibrationState a reference denotes: its attempts field read
\* through the array it refers to.
stateAt(heap, ref) ==
    [heap.states[ref] EXCEPT !.attempts = heap.arrays[heap.states[ref].attempts]]

\* return state after state.attempts.push(attempt) and
\* state.currentRating = newRating: the object given is the one returned.
writeInPlace(heap, ref, value) ==
    [states |-> [heap.states EXCEPT
                    ![ref] = [value EXCEPT !.attempts = heap.states[ref].attempts]],
     arrays |-> [heap.arrays EXCEPT ![heap.states[ref].attempts] = value.attempts]]

\* return { ...state, attempts: [...state.attempts, attempt], currentRating }:
\* a new object and a new array; the returned object is the last of the heap.
allocateState(heap, ref, value) ==
    [states |-> Append(heap.states,
                       [value EXCEPT !.attempts = Len(heap.arrays) + 1]),
     arrays |-> Append(heap.arrays, value.attempts)]

\* initializeCalibration(username): the first object, with an empty array.
InitAttempts ==
    /\ now = 1
    /\ call = NoCall
    /\ rec = initializeRating(1)
    /\ session = NoSession
    /\ store = NoRatings
    /\ cal = NoCalibration
    /\ finalized = NoRatings
    /\ frames = [states |-> <<[initializeCalibration(Username, 1) EXCEPT !.attempts = 1]>>,
                 arrays |-> <<<<>>>>,
                 submitted |-> <<<<>>>>]

\* processCalibrationAttempt(state, attempt) on the object at ref.
\* submitted lists, for every object, the attempts submitted on the way to it.
CallProcessCalibrationAttempt ==
    /\ Len(frames.states) < MaxStates
    /\ \E ref \in 1..Len(frames.states), attempt \in SubmittedAttempts(now) :
        /\ Abs(frames.states[ref].currentRating.rating - Fx(attempt.problemRating))
              <= Fx(MaxGap)
        /\ frames' =
            [states |-> allocateState(
                            frames, ref,
                            processCalibrationAttempt(stateAt(frames, ref), attempt, now)
                        ).states,
             arrays |-> allocateState(
                            frames, ref,
                            processCalibrationAttempt(stateAt(frames, ref), attempt, now)
                        ).arrays,
             submitted |-> Append(frames.submitted,
                                  Append(frames.submitted[ref], attempt))]
        /\ call' = [op |-> "processCalibrationAttempt", state |-> ref,
                    given |-> stateAt(frames, ref), attempt |-> attempt]
    /\ UNCHANGED <<now, rec, session, store, cal, finalized>>

TickAttempts == Tick /\ UNCHANGED <<call, rec, session, store, frames, cal, finalized>>

NextAttempts ==
    \/ CallProcessCalibrationAttempt
    \/ TickAttempts

SpecAttempts == InitAttempts /\ [][NextAttempts]_vars

\* C27: the attempts of every state made by processCalibrationAttempt calls
\* from initializeCalibration(username) on are the attempts submitted, in
\* submission order; username, startedAt and isComplete are those of the
\* first state; and the state a call was given is after the call what it was
\* before, and is not the state returned.
C27_AttemptsAppendedStateKept ==
    /\ Len(frames.states) = Len(frames.submitted)
    /\ \A ref \in 1..Len(frames.states) :
        /\ stateAt(frames, ref).attempts = frames.submitted[ref]
        /\ frames.states[ref].username = Username
        /\ frames.states[ref].startedAt = frames.states[1].startedAt
        /\ frames.states[ref].isComplete = FALSE
    /\ call # NoCall =>
        /\ stateAt(frames, call.state) = call.given
        /\ call.state < Len(frames.states)

\* Three calls, two of them on the same state with different attempts, made
\* on different days.
C27_Witness ==
    /\ Len(frames.states) = 4
    /\ call # NoCall /\ call.state = 2
    /\ Len(frames.submitted[3]) = 2 /\ Len(frames.submitted[4]) = 2
    /\ frames.submitted[3][2].slug # frames.submitted[4][2].slug
    /\ frames.submitted[4][1].slug # frames.submitted[4][2].slug
    /\ frames.submitted[4][1].timestamp < frames.submitted[4][2].timestamp
    /\ frames.states[4].currentRating # frames.states[2].currentRating

(***************************************************************************)
(* SpecLoad: loadRatings of the problem-rating lookup, called by several   *)
(* callers.  store holds the module's variables (ratingsMap, loadPromise)  *)
(* and the promises made; frames holds the callers.                        *)
(***************************************************************************)
ESTIMATED_RATINGS == [Easy |-> 1300, Medium |-> 1600, Hard |-> 2100]

\* let ratingsMap = null.
NoRatingsMap == [exists |-> FALSE]

\* ratingsMap = {}.
EmptyRatingsMap == [exists |-> TRUE, entries |-> [slug \in {} |-> 0]]

\* The body of /problem-ratings.json: the ratings object of the repository.
RatingsFile ==
    [exists |-> TRUE, entries |-> [slug \in {"two-sum", "merge-intervals"} |->
                                        IF slug = "two-sum" THEN 1150 ELSE 1650]]

LookupSlugs == {"two-sum", "merge-intervals", "unknown-problem"}

\* ratingsMap?.[slug]: 0 stands for undefined.
getRating(ratingsMap, slug) ==
    IF ratingsMap.exists /\ slug \in DOMAIN ratingsMap.entries
    THEN ratingsMap.entries[slug] ELSE 0

\* getRating(slug) ?? ESTIMATED_RATINGS[difficulty].
getRatingOrEstimate(ratingsMap, slug, difficulty) ==
    IF getRating(ratingsMap, slug) # 0 THEN getRating(ratingsMap, slug)
    ELSE ESTIMATED_RATINGS[difficulty]

LoadCallers == {"app", "view", "sync"}

\* The most loadRatings calls of one caller.
MaxLoads == 2

\* A caller: where its running call is, the promise it awaits, the calls it
\* made, those that awaited a load and those resolved, and whether ratingsMap was non-null at every
\* resolution.
IdleCaller ==
    [pc |-> "idle", awaited |-> 0, calls |-> 0, awaits |-> 0, resolved |-> 0,
     sawMap |-> TRUE]

InitLoad ==
    /\ now = 1
    /\ call = NoCall
    /\ rec = initializeRating(1)
    /\ session = NoSession
    /\ cal = NoCalibration
    /\ finalized = NoRatings
    /\ store = [ratingsMap |-> NoRatingsMap, loadPromise |-> 0, promises |-> <<>>,
                fetches |-> 0, failed |-> FALSE]
    /\ frames = [c \in LoadCallers |-> IdleCaller]

\* loadRatings were there no `if (loadPromise)`: every call that finds no
\* map starts a fetch of its own.
promiseNotShared(module) == 0

\* if (loadPromise) { await loadPromise; return; }: the promise a caller
\* shares, 0 for null.
sharedPromise(module) == module.loadPromise

\* The call returns to its caller.
returned(frame, module) ==
    [frame EXCEPT !.pc = "idle", !.awaited = 0, !.resolved = @ + 1,
                  !.sawMap = @ /\ module.ratingsMap.exists]

\* loadRatings() up to its first await: return when the map is there, await
\* the running load when there is one, and start the load otherwise (the
\* async function runs up to its fetch, and its promise is assigned).
CallLoadRatings(c) ==
    /\ frames[c].pc = "idle"
    /\ frames[c].calls < MaxLoads
    /\ IF store.ratingsMap.exists
       THEN /\ frames' = [frames EXCEPT ![c] = returned([@ EXCEPT !.calls = @ + 1], store)]
            /\ store' = store
       ELSE IF sharedPromise(store) # 0
       THEN /\ frames' = [frames EXCEPT ![c] = [@ EXCEPT !.pc = "awaiting",
                                                        !.awaited = sharedPromise(store),
                                                        !.calls = @ + 1,
                                                        !.awaits = @ + 1]]
            /\ store' = store
       ELSE /\ store' = [store EXCEPT !.promises = Append(@, "fetching"),
                                      !.loadPromise = Len(store.promises) + 1,
                                      !.fetches = @ + 1]
            /\ frames' = [frames EXCEPT ![c] = [@ EXCEPT !.pc = "awaiting",
                                                        !.awaited = Len(store.promises) + 1,
                                                        !.calls = @ + 1,
                                                        !.awaits = @ + 1]]
    /\ UNCHANGED <<now, call, rec, session, cal, finalized>>

\* catch: ratingsMap = {}; finally: loadPromise = null; the promise resolves.
loadFailed(module, p) ==
    [module EXCEPT !.ratingsMap = EmptyRatingsMap, !.loadPromise = 0,
                   !.promises[p] = "settled", !.failed = TRUE]

\* fetch resolves with res.ok.
FetchOk ==
    /\ \E p \in 1..Len(store.promises) :
        /\ store.promises[p] = "fetching"
        /\ store' = [store EXCEPT !.promises[p] = "parsing"]
    /\ UNCHANGED <<now, call, rec, session, frames, cal, finalized>>

\* fetch resolves with !res.ok: throw new Error(`HTTP ${res.status}`).
FetchNotOk ==
    /\ \E p \in 1..Len(store.promises) :
        /\ store.promises[p] = "fetching"
        /\ store' = loadFailed(store, p)
        /\ call' = [op |-> "fetch", outcome |-> "HTTP 404"]
    /\ UNCHANGED <<now, rec, session, frames, cal, finalized>>

\* fetch rejects.
FetchRejects ==
    /\ \E p \in 1..Len(store.promises) :
        /\ store.promises[p] = "fetching"
        /\ store' = loadFailed(store, p)
        /\ call' = [op |-> "fetch", outcome |-> "Failed to fetch"]
    /\ UNCHANGED <<now, rec, session, frames, cal, finalized>>

\* res.json() resolves: ratingsMap = the object; finally: loadPromise = null.
JsonOk ==
    /\ \E p \in 1..Len(store.promises) :
        /\ store.promises[p] = "parsing"
        /\ store' = [store EXCEPT !.ratingsMap = RatingsFile, !.loadPromise = 0,
                                  !.promises[p] = "settled"]
        /\ call' = [op |-> "fetch", outcome |-> "ok"]
    /\ UNCHANGED <<now, rec, session, frames, cal, finalized>>

\* res.json() rejects: the body is not JSON.
JsonRejects ==
    /\ \E p \in 1..Len(store.promises) :
        /\ store.promises[p] = "parsing"
        /\ store' = loadFailed(store, p)
        /\ call' = [op |-> "fetch", outcome |-> "Unexpected token"]
    /\ UNCHANGED <<now, rec, session, frames, cal, finalized>>

\* await loadPromise resumes once the promise has resolved.
LoadRatingsResumes(c) ==
    /\ frames[c].pc = "awaiting"
    /\ store.promises[frames[c].awaited] = "settled"
    /\ frames' = [frames EXCEPT ![c] = returned(@, store)]
    /\ UNCHANGED <<now, call, rec, session, store, cal, finalized>>

NextLoad ==
    \/ \E c \in LoadCallers : CallLoadRatings(c)
    \/ FetchOk
    \/ FetchNotOk
    \/ FetchRejects
    \/ JsonOk
    \/ JsonRejects
    \/ \E c \in LoadCallers : LoadRatingsResumes(c)

SpecLoad == InitLoad /\ [][NextLoad]_vars

\* C28: the loadRatings calls made, at the same time or one after the other,
\* fetch the ratings file at most once; ratingsMap is non-null whenever a
\* call resolves; and after a failed fetch the map is empty and every lookup
\* gives the estimate of the difficulty.
C28_OneFetchMapLoaded ==
    /\ store.fetches <= 1
    /\ \A c \in LoadCallers : frames[c].sawMap
    /\ store.failed =>
        /\ store.ratingsMap = EmptyRatingsMap
        /\ \A slug \in LookupSlugs, difficulty \in DOMAIN ESTIMATED_RATINGS :
            getRatingOrEstimate(store.ratingsMap, slug, difficulty)
                = ESTIMATED_RATINGS[difficulty]

\* Two callers shared one failed fetch, and one of them called again later.
C28_Witness ==
    /\ store.failed
    /\ store.fetches = 1
    /\ frames["app"].resolved = 2 /\ frames["app"].awaits = 1
    /\ frames["view"].resolved = 1 /\ frames["view"].awaits = 1
    /\ Len(store.promises) = 1

(***************************************************************************)
(* SpecApp: initApp, one step per await.  frames holds the db (the solves  *)
(* stored), store the ratings record of the user, call the running        *)
(* initApp.                                                                *)
(***************************************************************************)
SolveDataError == "An unexpected error occurred while loading solve data."

\* The solves of the db, in the order they were stored.
StoredSolves ==
    <<[slug |-> "two-sum", status |-> "Accepted", timestamp |-> 30],
      [slug |-> "course-schedule", status |-> "Accepted", timestamp |-> 10],
      [slug |-> "unrated", status |-> "Accepted", timestamp |-> 20],
      [slug |-> "two-sum", status |-> "Wrong Answer", timestamp |-> 5],
      [slug |-> "no-such-problem", status |-> "Accepted", timestamp |-> 15],
      [slug |-> "unrated", status |-> "Accepted", timestamp |-> 25]>>

\* The first n of them.
storedSolves(n) == SubSeq(StoredSolves, 1, n)

\* allSolves kept whatever their status.
acceptedOrNot(allSolves) == allSolves

\* allSolves.filter((s) => s.status === 'Accepted').
acceptedSolves(allSolves) ==
    filterSeq(allSolves, LAMBDA s : s.status = "Accepted", 1)

InitApp ==
    /\ now = 1
    /\ call = NoCall
    /\ rec = initializeRating(1)
    /\ session = NoSession
    /\ cal = NoCalibration
    /\ finalized = NoRatings
    /\ store \in {NoRatings, defaultRatings(1)}
    /\ \E n \in 0..(Len(StoredSolves) - 1), named \in BOOLEAN :
        frames = [username |-> IF named THEN Username ELSE "", solves |-> storedSolves(n)]

\* initApp() up to await db.getUsername().
BeginInitApp ==
    /\ call = NoCall
    /\ call' = [op |-> "initApp", pc |-> "getUsername", errors |-> <<>>,
                before |-> store, hadRatings |-> "unknown", solves |-> <<>>,
                initializing |-> FALSE, ratings |-> NoRatings, writes |-> 0,
                syncFailed |-> FALSE, initFailed |-> FALSE,
                result |-> "pending", username |-> ""]
    /\ UNCHANGED <<now, rec, session, store, frames, cal, finalized>>

\* db.getUsername() resolves: without a username initApp returns
\* { username: undefined, errors: [] }.
AppGetUsernameOk ==
    /\ call # NoCall /\ call.op = "initApp" /\ call.pc = "getUsername"
    /\ call' = IF frames.username = ""
               THEN [call EXCEPT !.pc = "done", !.result = "resolved"]
               ELSE [call EXCEPT !.pc = "loadRatings", !.username = frames.username]
    /\ UNCHANGED <<now, rec, session, store, frames, cal, finalized>>

\* await loadRatings() resolves (it never rejects); syncProblemCatalog is
\* started and not awaited.
AppLoadRatingsOk ==
    /\ call # NoCall /\ call.op = "initApp" /\ call.pc = "loadRatings"
    /\ call' = [call EXCEPT !.pc = "syncSolveData"]
    /\ UNCHANGED <<now, rec, session, store, frames, cal, finalized>>

\* syncSolveData resolves: it stored no new solve, or the next one.
AppSyncSolveDataOk ==
    /\ call # NoCall /\ call.op = "initApp" /\ call.pc = "syncSolveData"
    /\ \E added \in 0..1 :
        /\ Len(frames.solves) + added <= Len(StoredSolves)
        /\ frames' = [frames EXCEPT !.solves = storedSolves(Len(frames.solves) + added)]
    /\ call' = [call EXCEPT !.pc = "hasRatings"]
    /\ UNCHANGED <<now, rec, session, store, cal, finalized>>

\* syncSolveData rejects with code EXTENSION_UNAVAILABLE: logged only.
AppSyncSolveDataUnavailable ==
    /\ call # NoCall /\ call.op = "initApp" /\ call.pc = "syncSolveData"
    /\ call' = [call EXCEPT !.pc = "hasRatings"]
    /\ UNCHANGED <<now, rec, session, store, frames, cal, finalized>>

\* syncSolveData rejects with another error: errors.push(...).
AppSyncSolveDataFail ==
    /\ call # NoCall /\ call.op = "initApp" /\ call.pc = "syncSolveData"
    /\ call' = [call EXCEPT !.pc = "hasRatings", !.syncFailed = TRUE,
                            !.errors = Append(@, SolveDataError)]
    /\ UNCHANGED <<now, rec, session, store, frames, cal, finalized>>

\* hasRatings(username) resolves: ratings !== null.
AppHasRatingsOk ==
    /\ call # NoCall /\ call.op = "initApp" /\ call.pc = "hasRatings"
    /\ call' = [call EXCEPT !.hadRatings = IF store.exists THEN "yes" ELSE "no",
                            !.pc = IF store.exists THEN "identifyUser" ELSE "getAllSolves"]
    /\ UNCHANGED <<now, rec, session, store, frames, cal, finalized>>

\* db.getAllSolves() resolves: the accepted solves are counted.
AppGetAllSolvesOk ==
    /\ call # NoCall /\ call.op = "initApp" /\ call.pc = "getAllSolves"
    /\ call' = [call EXCEPT !.solves = frames.solves,
                            !.pc = IF Len(acceptedSolves(frames.solves)) >= 5
                                   THEN "getAllProblems" ELSE "identifyUser"]
    /\ UNCHANGED <<now, rec, session, store, frames, cal, finalized>>

\* db.getAllProblems() resolves: initializeRatingsFromHistory runs up to its
\* await of saveRatings.
AppGetAllProblemsOk ==
    /\ call # NoCall /\ call.op = "initApp" /\ call.pc = "getAllProblems"
    /\ \E jitters \in [jitterDrawn(call.solves, HistoryProblems) -> HistoryJitters] :
        call' = [call EXCEPT !.pc = "saveRatings", !.initializing = TRUE,
                             !.ratings = initializeRatingsFromHistory(
                                            call.solves, HistoryProblems, jitters, now)]
    /\ UNCHANGED <<now, rec, session, store, frames, cal, finalized>>

\* saveRatings resolves: the ratings are stored.
AppInitializeRatingsOk ==
    /\ call # NoCall /\ call.op = "initApp" /\ call.pc = "saveRatings"
    /\ store' = call.ratings
    /\ call' = [call EXCEPT !.pc = "identifyUser", !.writes = @ + 1]
    /\ UNCHANGED <<now, rec, session, frames, cal, finalized>>

\* An await of the try around the initialization rejects (hasRatings,
\* getAllSolves, getAllProblems, saveRatings): the catch logs the error and
\* does not touch errors.
AppInitializeRatingsFail ==
    /\ call # NoCall /\ call.op = "initApp"
    /\ call.pc \in {"hasRatings", "getAllSolves", "getAllProblems", "saveRatings"}
    /\ call' = [call EXCEPT !.pc = "identifyUser", !.initFailed = TRUE]
    /\ UNCHANGED <<now, rec, session, store, frames, cal, finalized>>

\* identifyUser resolves: return { username, errors }.
AppIdentifyUserOk ==
    /\ call # NoCall /\ call.op = "initApp" /\ call.pc = "identifyUser"
    /\ call' = [call EXCEPT !.pc = "done", !.result = "resolved"]
    /\ UNCHANGED <<now, rec, session, store, frames, cal, finalized>>

\* db.getUsername or identifyUser rejects: initApp rejects.
AppRejects ==
    /\ call # NoCall /\ call.op = "initApp"
    /\ call.pc \in {"getUsername", "identifyUser"}
    /\ call' = [call EXCEPT !.pc = "done", !.result = "rejected"]
    /\ UNCHANGED <<now, rec, session, store, frames, cal, finalized>>

NextApp ==
    \/ BeginInitApp
    \/ AppGetUsernameOk
    \/ AppLoadRatingsOk
    \/ AppSyncSolveDataOk
    \/ AppSyncSolveDataUnavailable
    \/ AppSyncSolveDataFail
    \/ AppHasRatingsOk
    \/ AppGetAllSolvesOk
    \/ AppGetAllProblemsOk
    \/ AppInitializeRatingsOk
    \/ AppInitializeRatingsFail
    \/ AppIdentifyUserOk
    \/ AppRejects

SpecApp == InitApp /\ [][NextApp]_vars

\* The number of stored solves whose status is Accepted.
AcceptedStored ==
    Cardinality({i \in 1..Len(frames.solves) : frames.solves[i].status = "Accepted"})

\* C29: initApp runs initializeRatingsFromHistory only when hasRatings found
\* no record and at least 5 accepted solves are stored; when a ratings record
\* existed at the start nothing is written to the ratings store; and errors
\* holds the solve-data error of a failed sync and nothing else, also after
\* the initialization of the ratings failed.
C29_InitializesOnlyWithoutRecord ==
    (call # NoCall /\ call.op = "initApp") =>
        /\ call.initializing =>
            /\ call.hadRatings = "no" /\ ~call.before.exists
            /\ AcceptedStored >= 5
        /\ call.before.exists => call.writes = 0 /\ store = call.before
        /\ ~call.initializing => call.writes = 0 /\ store = call.before
        /\ call.errors = IF call.syncFailed THEN <<SolveDataError>> ELSE <<>>

\* initApp found no record and 5 accepted solves among 6, its saveRatings
\* rejected, and it returned with no error.
C29_Witness ==
    /\ call # NoCall /\ call.op = "initApp"
    /\ call.pc = "done" /\ call.result = "resolved"
    /\ call.initializing /\ call.initFailed
    /\ Len(call.solves) = 6
    /\ call.errors = <<>>
    /\ ~store.exists

(***************************************************************************)
(* SpecIterate: updateRating with the two loops of its volatility step     *)
(* taken one test and one iteration at a time.  call holds the locals of   *)
(* the running updateRating.                                               *)
(***************************************************************************)

\* The most iterations either loop is followed for.
MaxIterations == 30

\* The values updateRating has computed when it reaches line 304.
volatilityInputs(decayedRating, problemRating, actualOutcome) ==
    LET mu == toGlickoScale(decayedRating.rating)
        phi == rdToGlickoScale(Fx(decayedRating.rd))
        gPhiJ == g(rdToGlickoScale(Fx(50)))
        expectedScore == E(mu, toGlickoScale(Fx(problemRating)), rdToGlickoScale(Fx(50)))
        v == FxDiv(Scale, FxMul(FxMul(FxMul(gPhiJ, gPhiJ), expectedScore),
                                Scale - expectedScore))
        delta == FxMul(FxMul(v, gPhiJ), actualOutcome - expectedScore)
    IN  [mu |-> mu, phiSquared |-> FxMul(phi, phi), gPhiJ |-> gPhiJ,
         expectedScore |-> expectedScore, v |-> v,
         deltaSquared |-> FxMul(delta, delta),
         a |-> MathLog(FxMul(decayedRating.volatility, decayedRating.volatility))]

\* f(x) with the locals of the running call.
fOf(frame, x) ==
    fVol(x, frame.inputs.deltaSquared, frame.inputs.phiSquared, frame.inputs.v,
         frame.inputs.a)

\* let fA = f(A); let fB = f(B): the locals at the head of the second loop.
bracketed(frame, B) ==
    [frame EXCEPT !.pc = "illinois", !.B = B, !.fA = fOf(frame, frame.A),
                  !.fB = fOf(frame, B)]

\* One iteration without fA = fA / 2: the false-position step.
iterationNotHalving(frame, C) ==
    IF (fOf(frame, C) < 0 /\ frame.fB > 0) \/ (fOf(frame, C) > 0 /\ frame.fB < 0)
    THEN [frame EXCEPT !.A = frame.B, !.fA = frame.fB, !.B = C, !.fB = fOf(frame, C),
                       !.iterations = @ + 1]
    ELSE [frame EXCEPT !.B = C, !.fB = fOf(frame, C), !.iterations = @ + 1]

\* One iteration of while (Math.abs(B - A) > EPSILON), with C computed.
iteration(frame, C) ==
    IF (fOf(frame, C) < 0 /\ frame.fB > 0) \/ (fOf(frame, C) > 0 /\ frame.fB < 0)
    THEN [frame EXCEPT !.A = frame.B, !.fA = frame.fB, !.B = C, !.fB = fOf(frame, C),
                       !.iterations = @ + 1]
    ELSE [frame EXCEPT !.fA = Half(@), !.B = C, !.fB = fOf(frame, C),
                       !.iterations = @ + 1]

\* updateRating up to line 304, and the choice of B of lines 307-309.
BeginUpdateRating ==
    /\ call = NoCall
    /\ \E problemRating \in ProblemRatings, actualOutcome \in OutcomeScores :
        /\ Abs(rec.rating - Fx(problemRating)) <= Fx(MaxGap)
        /\ call' = [op |-> "updateRating", pc |-> "choose", userRating |-> rec,
                    problemRating |-> problemRating, actualOutcome |-> actualOutcome,
                    currentTime |-> now,
                    inputs |-> volatilityInputs(applyTimeDecay(rec, now), problemRating,
                                                actualOutcome),
                    A |-> volatilityInputs(applyTimeDecay(rec, now), problemRating,
                                           actualOutcome).a,
                    B |-> 0, fA |-> 0, fB |-> 0, k |-> 1, iterations |-> 0,
                    result |-> rec]
    /\ UNCHANGED <<now, rec, session, store, frames, cal, finalized>>

\* if (deltaSquared > phiSquared + v) B = Math.log(...): no first loop.
ChooseLogBracket ==
    /\ call # NoCall /\ call.op = "updateRating" /\ call.pc = "choose"
    /\ call.inputs.deltaSquared > call.inputs.phiSquared + call.inputs.v
    /\ call' = bracketed(call, MathLog(call.inputs.deltaSquared - call.inputs.phiSquared
                                       - call.inputs.v))
    /\ UNCHANGED <<now, rec, session, store, frames, cal, finalized>>

\* else { let k = 1; while (f(a - k * TAU) < 0) k++; B = a - k * TAU }: one
\* test of the loop, with k++ or the exit.
BracketTest ==
    /\ call # NoCall /\ call.op = "updateRating" /\ call.pc \in {"choose", "bracket"}
    /\ ~(call.inputs.deltaSquared > call.inputs.phiSquared + call.inputs.v)
    /\ call.k < MaxIterations
    /\ call' = IF fOf(call, call.inputs.a - call.k * TAU) < 0
               THEN [call EXCEPT !.pc = "bracket", !.k = @ + 1]
               ELSE bracketed(call, call.inputs.a - call.k * TAU)
    /\ UNCHANGED <<now, rec, session, store, frames, cal, finalized>>

\* One iteration of the second loop.
IllinoisIteration ==
    /\ call # NoCall /\ call.op = "updateRating" /\ call.pc = "illinois"
    /\ Abs(call.B - call.A) > EPSILON
    /\ call.fB # call.fA
    /\ call.iterations < MaxIterations
    /\ call' = iteration(call, call.A + FxMul(call.A - call.B,
                                              FxDiv(call.fA, call.fB - call.fA)))
    /\ UNCHANGED <<now, rec, session, store, frames, cal, finalized>>

\* The second loop exits (fB = fA makes C infinite, the next C NaN, and the
\* test false): lines 336-360, and the record is returned.
UpdateRatingReturns ==
    /\ call # NoCall /\ call.op = "updateRating" /\ call.pc = "illinois"
    /\ ~(Abs(call.B - call.A) > EPSILON /\ call.fB # call.fA)
    /\ rec' = updateFromVolatility(
                applyTimeDecay(call.userRating, call.currentTime), call.inputs.mu,
                call.inputs.phiSquared, call.inputs.gPhiJ, call.inputs.expectedScore,
                call.inputs.v, MathExp(Half(call.A)), call.actualOutcome,
                call.currentTime)
    /\ call' = [call EXCEPT !.pc = "returned", !.result = rec']
    /\ UNCHANGED <<now, session, store, frames, cal, finalized>>

\* Time passes between calls, not inside one.
TickIterate ==
    /\ call = NoCall
    /\ Tick
    /\ UNCHANGED <<call, rec, session, store, frames, cal, finalized>>

NextIterate ==
    \/ BeginUpdateRating
    \/ ChooseLogBracket
    \/ BracketTest
    \/ IllinoisIteration
    \/ UpdateRatingReturns
    \/ TickIterate

SpecIterate == InitUpdate /\ [][NextIterate]_vars

UpdateRatingReturned == IF call = NoCall THEN FALSE ELSE call.pc = "returned"

====
